---- MODULE Spec2Model ----
(***************************************************************************)
(* Model of the adaptive multigrid of PIV/multiGrid.py: MultiGrid (the     *)
(* mesh), GridCell (a quadtree node) and Grid (the per-tier lookup table). *)
(*                                                                         *)
(* Objects are held in index-addressed sequences.  Python indices are      *)
(* 0-based, so object k of a list is element k+1 of the sequence that      *)
(* models it; None is the index -1.  Coordinates are stored multiplied by  *)
(* Scale, because create_new_corrWindows computes midpoints with a float   *)
(* division by two and halves of odd spacings are not integers.            *)
(*                                                                         *)
(* The module also models DensePredictor of dense_predictor.py: dp holds   *)
(* the constructed object (the empty sequence when there is none) and      *)
(* dp_last the last call made on the class.  Arrays are records of a       *)
(* shape and a function from 0-based rows to 0-based columns to values.    *)
(***************************************************************************)
EXTENDS Integers, Sequences, FiniteSets, TLC

VARIABLES img_dim, spacing, windows, cellobjs, cells, cells_in_top_tier,
          grids, max_tier, last, dp, dp_last

vars == <<img_dim, spacing, windows, cellobjs, cells, cells_in_top_tier,
          grids, max_tier, last, dp, dp_last>>

\* ------------------------------------------------------------------ bounds
\* split is only requested on cells of tier <= MaxTier
MaxTier == 2
\* split is only requested while at most MaxCells GridCell objects exist
MaxCells == 13
\* coordinates are kept in units of 1/Scale pixel
Scale == 2 ^ (MaxTier + 1)
\* the (n_rows, n_cols, spacing) triples a mesh is constructed from
Configs == { <<4, 4, 2>>, <<4, 4, 4>>, <<2, 5, 2>>, <<2, 2, 1>>, <<3, 5, 2>>,
             <<5, 9, 4>>, <<9, 5, 4>>, <<5, 5, 2>>, <<7, 7, 6>>, <<9, 9, 8>> }
\* the window sizes a mesh is constructed with
WSizes == { 5 }
\* adaptive_split_peak_value_cells is only requested on at most MaxLeaves
\* leaf cells
MaxLeaves == 5
\* the objective fields adaptive_split_peak_value_cells is called with
Objectives == { "flat", "east", "north", "spot" }

None == -1
Keys == <<"bl", "br", "tl", "tr">>
KeySet == {"bl", "br", "tl", "tr"}
Dirs == {"north", "east", "south", "west"}

\* ------------------------------------------------------------ small helpers
\* len(np.arange(0, n, s))
ArangeLen(n, s) == IF n <= 0 THEN 0 ELSE (n + s - 1) \div s

\* corr_window.CorrWindow(x, y, WS): the sample point value object
CorrWindow(x, y, WS) == [x |-> x, y |-> y, WS |-> WS]

\* Grid.__init__: an all-None array sized from the image and the spacing
Grid(dim, h) ==
    LET ny == ArangeLen(dim[1], h)
        nx == ArangeLen(dim[2], h)
    IN [spacing |-> h, ny |-> ny, nx |-> nx,
        array |-> [i \in 0..(ny - 1) |-> [j \in 0..(nx - 1) |-> None]]]

NoChildren == [k \in KeySet |-> None]

\* GridCell.__init__: tier 0, no parent, no children, no neighbours
GridCell(id_bl, id_br, id_tl, id_tr) ==
    [id_bl |-> id_bl, id_br |-> id_br, id_tl |-> id_tl, id_tr |-> id_tr,
     tier |-> 0, ix |-> 0, iy |-> 0, parent |-> None,
     children |-> NoChildren,
     north |-> None, east |-> None, south |-> None, west |-> None]

\* GridCell.has_children
has_children(cell) == cell.children # NoChildren

\* the object with (0-based) index c of the state st
CellOf(st, c) == st.cellobjs[c + 1]
WinOf(st, w) == st.windows[w + 1]

\* MultiGrid.n_windows
n_windows(st) == Len(st.windows)

\* ------------------------------------------------------------ construction
\* n_cells_axis with the grid points taken for cells
n_cells_axis_off_by_one(n_points) == n_points

\* "n_rc, n_cc = n_rows - 1, n_cols - 1": one cell less than grid points
n_cells_axis(n_points) == n_points - 1

\* window_xy with the grid flattened column by column
window_xy_by_column(k, nx, ny, s) ==
    [x |-> (k \div ny) * s * Scale, y |-> (k % ny) * s * Scale]

\* the position of entry k of the raveled meshgrid: the grid is flattened
\* row by row (lines 28-39)
window_xy(k, nx, ny, s) ==
    [x |-> (k % nx) * s * Scale, y |-> (k \div nx) * s * Scale]

\* MultiGrid.__init__ : the mesh built from (n_rows, n_cols), spacing and WS
MultiGridInit(dim, s, WS) ==
    LET ny == ArangeLen(dim[1], s)
        nx == ArangeLen(dim[2], s)
        wins == [k \in 1..(ny * nx) |->
                    CorrWindow(window_xy(k - 1, nx, ny, s).x,
                               window_xy(k - 1, nx, ny, s).y, WS)]
        g0 == Grid(dim, s)
        grid0 == [g0 EXCEPT !.array =
                    [ii \in 0..(ny - 1) |-> [jj \in 0..(nx - 1) |->
                        jj + ii * nx]]]
        n_rc == n_cells_axis(ny)
        n_cc == n_cells_axis(nx)
        ncell == IF n_rc > 0 /\ n_cc > 0 THEN n_rc * n_cc ELSE 0
        mk(cn) ==
            LET rr == cn \div n_cc
                cc == cn % n_cc
                bl == rr * nx + cc
                gc == GridCell(bl, bl + 1, bl + nx, bl + nx + 1)
            IN [gc EXCEPT !.ix = cc, !.iy = rr,
                          !.north = IF rr # n_rc - 1 THEN cn + n_cc ELSE None,
                          !.east = IF cc # n_cc - 1 THEN cn + 1 ELSE None,
                          !.south = IF rr # 0 THEN cn - n_cc ELSE None,
                          !.west = IF cc # 0 THEN cn - 1 ELSE None]
    IN [img_dim |-> dim, spacing |-> s, windows |-> wins,
        cellobjs |-> [k \in 1..ncell |-> mk(k - 1)],
        cells |-> [k \in 1..ncell |-> k - 1],
        cells_in_top_tier |-> ncell,
        grids |-> <<grid0>>, max_tier |-> 0]

\* ----------------------------------------------------------------- new_tier
\* new_tier with the half taken by integer division, so that an odd
\* spacing above 1 passes the test
new_tier_floor_half(st) ==
    IF st.spacing \div (2 ^ st.max_tier) >= 2
    THEN [st |-> [st EXCEPT !.max_tier = @ + 1,
                            !.grids = Append(@, Grid(st.img_dim,
                                (st.spacing \div (2 ^ st.max_tier)) \div 2))],
          err |-> "none"]
    ELSE [st |-> st, err |-> "refine"]

\* MultiGrid.new_tier: halve the deepest spacing if the half is an integer
new_tier(st) ==
    LET h_curr == st.spacing \div (2 ^ st.max_tier)
    IN IF h_curr % 2 = 0
       THEN [st |-> [st EXCEPT !.max_tier = @ + 1,
                               !.grids = Append(@, Grid(st.img_dim,
                                                        h_curr \div 2))],
             err |-> "none"]
       ELSE [st |-> st, err |-> "refine"]

\* --------------------------------------------------- create_new_corrWindows
\* "self.<side> is not None and self.<side>.has_children()"
neighb_has_children(st, nb) == nb # None /\ has_children(CellOf(st, nb))

\* the corner coordinates and the centre the new windows are placed at
\* (lines 381-382); the midpoints are exact while the cell side is even
cell_geometry(st, c) ==
    [x0 |-> WinOf(st, CellOf(st, c).id_bl).x,
     x1 |-> WinOf(st, CellOf(st, c).id_br).x,
     y0 |-> WinOf(st, CellOf(st, c).id_bl).y,
     y1 |-> WinOf(st, CellOf(st, c).id_tl).y,
     ctr_x |-> (WinOf(st, CellOf(st, c).id_bl).x
                + WinOf(st, CellOf(st, c).id_br).x) \div 2,
     ctr_y |-> (WinOf(st, CellOf(st, c).id_bl).y
                + WinOf(st, CellOf(st, c).id_tl).y) \div 2,
     WS |-> WinOf(st, CellOf(st, c).id_bl).WS]

\* append_window with the window appended twice
append_window_twice(r, x, y, WS) ==
    [windows |-> Append(Append(r.windows, CorrWindow(x, y, WS)),
                        CorrWindow(x, y, WS)),
     ids |-> Append(r.ids, Len(r.windows) + 1)]

\* "win = CorrWindow(...); self.cw_list.append(win); id = n_windows - 1".
\* r carries the window list built so far and the ids chosen so far.
append_window(r, x, y, WS) ==
    [windows |-> Append(r.windows, CorrWindow(x, y, WS)),
     ids |-> Append(r.ids, Len(r.windows))]

\* edge_window without the look at the neighbour: always a new CorrWindow
edge_window_always_new(st, r, nb, key, corner, x, y, WS) ==
    append_window(r, x, y, WS)

\* one of the four edge midpoints: the split neighbour's child corner when
\* the neighbour across that edge has children, else a new CorrWindow
edge_window(st, r, nb, key, corner, x, y, WS) ==
    IF neighb_has_children(st, nb)
    THEN [windows |-> r.windows,
          ids |-> Append(r.ids,
                         CellOf(st, CellOf(st, nb).children[key])[corner])]
    ELSE append_window(r, x, y, WS)

\* "check left" (lines 384-391)
left_mid(st, c, g, r) ==
    edge_window(st, r, CellOf(st, c).west, "br", "id_tr", g.x0, g.ctr_y, g.WS)

\* "check down" (lines 393-400)
ctr_btm(st, c, g, r) ==
    edge_window(st, r, CellOf(st, c).south, "tl", "id_tr",
                g.ctr_x, g.y0, g.WS)

\* the centre window is always created (lines 402-406)
ctr_mid(st, c, g, r) == append_window(r, g.ctr_x, g.ctr_y, g.WS)

\* "check up" (lines 408-415)
ctr_top(st, c, g, r) ==
    edge_window(st, r, CellOf(st, c).north, "br", "id_bl",
                g.ctr_x, g.y1, g.WS)

\* "check right" (lines 417-424)
right_mid(st, c, g, r) ==
    edge_window(st, r, CellOf(st, c).east, "bl", "id_tl",
                g.x1, g.ctr_y, g.WS)

\* the five windows in their order of creation
five_windows(st, c, g) ==
    right_mid(st, c, g, ctr_top(st, c, g, ctr_mid(st, c, g,
        ctr_btm(st, c, g, left_mid(st, c, g,
            [windows |-> st.windows, ids |-> <<>>])))))

\* "return left_mid, ctr_btm, ctr_mid, ctr_top, right_mid"
window_ids(r) ==
    [windows |-> r.windows, lm |-> r.ids[1], cb |-> r.ids[2],
     cm |-> r.ids[3], ct |-> r.ids[4], rm |-> r.ids[5]]

\* GridCell.create_new_corrWindows
create_new_corrWindows(st, c) ==
    window_ids(five_windows(st, c, cell_geometry(st, c)))

\* --------------------------------------------------- update_child_neighbours
\* set the neighbour `dir` of cell object a to b
set_neighb(objs, a, dir, b) == [objs EXCEPT ![a + 1][dir] = b]

\* the four assignments of one side of update_child_neighbours
stitch_links(objs, ch, ney_child, dir, back, k1, n1, k2, n2) ==
    set_neighb(set_neighb(set_neighb(set_neighb(objs,
        ch[k1], dir, ney_child[n1]),
        ch[k2], dir, ney_child[n2]),
        ney_child[n1], back, ch[k1]),
        ney_child[n2], back, ch[k2])

\* stitch with the back links from the neighbour's children forgotten
stitch_oneway(objs, ch, nb, dir, back, k1, n1, k2, n2) ==
    IF nb # None /\ has_children(objs[nb + 1])
    THEN set_neighb(set_neighb(objs,
             ch[k1], dir, objs[nb + 1].children[n1]),
             ch[k2], dir, objs[nb + 1].children[n2])
    ELSE objs

\* one side of update_child_neighbours: if the neighbour nb of the parent
\* exists and has children, link the two children of the parent along that
\* edge (k1, k2) with the two facing children of nb (n1, n2), both ways
stitch(objs, ch, nb, dir, back, k1, n1, k2, n2) ==
    IF nb # None /\ has_children(objs[nb + 1])
    THEN stitch_links(objs, ch, objs[nb + 1].children, dir, back,
                      k1, n1, k2, n2)
    ELSE objs

\* GridCell.update_child_neighbours: north, east, south, west.  self is the
\* split cell; its own links are not changed by the stitching.
update_child_neighbours(objs, self) ==
    stitch(stitch(stitch(stitch(objs,
        self.children, self.north, "north", "south", "tl", "bl", "tr", "br"),
        self.children, self.east, "east", "west", "br", "bl", "tr", "tl"),
        self.children, self.south, "south", "north", "bl", "tl", "br", "tr"),
        self.children, self.west, "west", "east", "bl", "br", "tl", "tr")

\* -------------------------------------------------------------------- split
\* child_cell with the left and right corners taken for each other
child_cell_swapped(self, c, b, r, l, t, dx, dy) ==
    [GridCell(r, b, t, l) EXCEPT !.tier = self.tier + 1,
                                 !.parent = c,
                                 !.ix = self.ix * 2 + dx,
                                 !.iy = self.iy * 2 + dy]

\* child_cell with the grid indices of the parent not doubled
child_cell_not_doubled(self, c, b, r, l, t, dx, dy) ==
    [GridCell(b, r, l, t) EXCEPT !.tier = self.tier + 1,
                                 !.parent = c,
                                 !.ix = self.ix + dx,
                                 !.iy = self.iy + dy]

\* a child of the split cell, before any neighbour is known (lines 447-469)
child_cell(self, c, b, r, l, t, dx, dy) ==
    [GridCell(b, r, l, t) EXCEPT !.tier = self.tier + 1,
                                 !.parent = c,
                                 !.ix = self.ix * 2 + dx,
                                 !.iy = self.iy * 2 + dy]

\* new_children with the centre window taken for the bottom one in br
new_children_slip(self, c, cw) ==
    << child_cell(self, c, self.id_bl, cw.cb, cw.lm, cw.cm, 0, 0),
       child_cell(self, c, cw.cm, self.id_br, cw.cm, cw.rm, 1, 0),
       child_cell(self, c, cw.lm, cw.cm, self.id_tl, cw.ct, 0, 1),
       child_cell(self, c, cw.cm, cw.rm, cw.ct, self.id_tr, 1, 1) >>

\* the four children bl, br, tl, tr of the split cell
new_children(self, c, cw) ==
    << child_cell(self, c, self.id_bl, cw.cb, cw.lm, cw.cm, 0, 0),
       child_cell(self, c, cw.cb, self.id_br, cw.cm, cw.rm, 1, 0),
       child_cell(self, c, cw.lm, cw.cm, self.id_tl, cw.ct, 0, 1),
       child_cell(self, c, cw.cm, cw.rm, cw.ct, self.id_tr, 1, 1) >>

\* "self.children = {'bl': bl, 'br': br, 'tl': tl, 'tr': tr}" for children
\* allocated as the objects n, n+1, n+2, n+3
children_map(n) == [bl |-> n, br |-> n + 1, tl |-> n + 2, tr |-> n + 3]

\* the state once the windows and the children have been created and the
\* children hang below the cell (lines 444-469)
with_children(st, c, cw) ==
    [st EXCEPT !.windows = cw.windows,
               !.cellobjs =
                   [@ EXCEPT ![c + 1].children =
                                 children_map(Len(st.cellobjs))]
                   \o new_children(CellOf(st, c), c, cw)]

\* "if bl.tier > self.multigrid.max_tier: self.multigrid.new_tier()"
tier_for_children(st, tier) ==
    IF tier > st.max_tier THEN new_tier(st) ELSE [st |-> st, err |-> "none"]

\* "tmp_grid._array[row][col] = self.cw_list[w]"; a row or column outside
\* the array is an IndexError and ends the registration
grid_set(r, row, col, w) ==
    IF r.err # "none" THEN r
    ELSE IF row \in DOMAIN r.array /\ col \in DOMAIN r.array[row]
         THEN [r EXCEPT !.array[row][col] = w]
         ELSE [r EXCEPT !.err = "index"]

\* register_windows with the column given first and the row second
register_windows_transposed(array, self, cw) ==
    grid_set(grid_set(grid_set(grid_set(grid_set(
        [array |-> array, err |-> "none"],
        self.ix * 2, self.iy * 2 + 1, cw.lm),
        self.ix * 2 + 1, self.iy * 2 + 0, cw.cb),
        self.ix * 2 + 1, self.iy * 2 + 1, cw.cm),
        self.ix * 2 + 1, self.iy * 2 + 2, cw.ct),
        self.ix * 2 + 2, self.iy * 2 + 1, cw.rm)

\* the five registrations of lines 476-482 on the array of the children's
\* tier grid
register_windows(array, self, cw) ==
    grid_set(grid_set(grid_set(grid_set(grid_set(
        [array |-> array, err |-> "none"],
        self.iy * 2 + 1, self.ix * 2, cw.lm),
        self.iy * 2 + 0, self.ix * 2 + 1, cw.cb),
        self.iy * 2 + 1, self.ix * 2 + 1, cw.cm),
        self.iy * 2 + 2, self.ix * 2 + 1, cw.ct),
        self.iy * 2 + 1, self.ix * 2 + 2, cw.rm)

\* sibling_links with north and east exchanged for the bottom-left child
sibling_links_crossed(objs, ch) ==
    set_neighb(set_neighb(set_neighb(set_neighb(
    set_neighb(set_neighb(set_neighb(set_neighb(objs,
        ch.bl, "north", ch.br), ch.bl, "east", ch.tl),
        ch.br, "north", ch.tr), ch.br, "west", ch.bl),
        ch.tl, "south", ch.bl), ch.tl, "east", ch.tr),
        ch.tr, "south", ch.br), ch.tr, "west", ch.tl)

\* "bl.north, bl.east = tl, br" ... : the links between the four siblings
sibling_links(objs, ch) ==
    set_neighb(set_neighb(set_neighb(set_neighb(
    set_neighb(set_neighb(set_neighb(set_neighb(objs,
        ch.bl, "north", ch.tl), ch.bl, "east", ch.br),
        ch.br, "north", ch.tr), ch.br, "west", ch.bl),
        ch.tl, "south", ch.bl), ch.tl, "east", ch.tr),
        ch.tr, "south", ch.br), ch.tr, "west", ch.tl)

\* link_and_append with the four cells put in front of the cell list
link_and_prepend(st, self) ==
    [st |-> [st EXCEPT
                !.cellobjs = update_child_neighbours(
                                 sibling_links(@, self.children), self),
                !.cells = <<self.children.bl, self.children.br,
                            self.children.tl, self.children.tr>> \o @],
     err |-> "none"]

\* lines 484-502: link the siblings, stitch them to the neighbours'
\* children and append the four cells to the cell list
link_and_append(st, self) ==
    [st |-> [st EXCEPT
                !.cellobjs = update_child_neighbours(
                                 sibling_links(@, self.children), self),
                !.cells = @ \o <<self.children.bl, self.children.br,
                                 self.children.tl, self.children.tr>>],
     err |-> "none"]

\* lines 475-502, given the outcome g of the five registrations
after_register(st, c, g) ==
    IF g.err # "none"
    THEN [st |-> [st EXCEPT !.grids[CellOf(st, c).tier + 2].array = g.array],
          err |-> g.err]
    ELSE link_and_append(
             [st EXCEPT !.grids[CellOf(st, c).tier + 2].array = g.array],
             CellOf(st, c))

\* lines 471-502, given the outcome nt of the request for a tier.  An
\* error of new_tier leaves the windows and the children created so far.
after_tier(c, cw, nt) ==
    IF nt.err # "none" THEN nt
    ELSE IF CellOf(nt.st, c).tier + 1 >= Len(nt.st.grids)
    THEN [st |-> nt.st, err |-> "index"]
    ELSE after_register(nt.st, c,
             register_windows(nt.st.grids[CellOf(nt.st, c).tier + 2].array,
                              CellOf(nt.st, c), cw))

\* lines 446-502, given the windows cw of the cell
split_with(st, c, cw) ==
    after_tier(c, cw,
               tier_for_children(with_children(st, c, cw),
                                 CellOf(st, c).tier + 1))

\* GridCell.split from the creation of the windows on (lines 441-502).
\* The result is the state the call leaves and the error it ends with.
split_body(st, c) == split_with(st, c, create_new_corrWindows(st, c))

RECURSIVE split(_, _)

\* the outcome q of a cascaded split, added to the count n of cells split
\* before it
add_count(n, q) == [st |-> q.st, err |-> q.err, n |-> n + q.n]

\* one side of split_neighbs_if_needed: when the cell has no neighbour on
\* that side and its parent has one, split the parent's neighbour.  r is
\* the outcome of the sides handled before; an error raised there has
\* already ended the call.
split_neighb(r, c, dir) ==
    IF r.err # "none" THEN r
    ELSE IF /\ CellOf(r.st, c)[dir] = None
            /\ CellOf(r.st, CellOf(r.st, c).parent)[dir] # None
         THEN add_count(r.n,
                  split(r.st, CellOf(r.st, CellOf(r.st, c).parent)[dir]))
         ELSE r

\* split_neighbs_if_needed that splits no neighbour
split_neighbs_skipped(st, c) == [st |-> st, err |-> "none", n |-> 0]

\* GridCell.split_neighbs_if_needed: north, east, south, west
split_neighbs_if_needed(st, c) ==
    split_neighb(split_neighb(split_neighb(split_neighb(
        [st |-> st, err |-> "none", n |-> 0],
        c, "north"), c, "east"), c, "south"), c, "west")

\* the outcome b of lines 441-502 counted as one more split cell
count_split(n, b) ==
    [st |-> b.st, err |-> b.err, n |-> IF b.err = "none" THEN n + 1 ELSE n]

\* lines 441-502 after the balancing step ended as r
after_balance(c, r) ==
    IF r.err # "none" THEN r ELSE count_split(r.n, split_body(r.st, c))

\* split without the test for existing children
split_unchecked(st, c) ==
    after_balance(c, IF CellOf(st, c).tier > 0
                     THEN split_neighbs_if_needed(st, c)
                     ELSE [st |-> st, err |-> "none", n |-> 0])

\* GridCell.split.  n counts the cells split by the call: the cell itself
\* and the cells its balancing step split.
split(st, c) ==
    IF has_children(CellOf(st, c))
    THEN [st |-> st, err |-> "already", n |-> 0]
    ELSE after_balance(c, IF CellOf(st, c).tier > 0
                          THEN split_neighbs_if_needed(st, c)
                          ELSE [st |-> st, err |-> "none", n |-> 0])

\* ----------------------------------------------------------- split_all_cells
\* one entry of the list of the split calls a loop made: the cell the call
\* was made on and how the call ended
Attempt(c, err) == [cell |-> c, err |-> err]

RECURSIVE split_all_from(_, _, _, _)
\* line 137 ended as r for the i-th listed cell c: an error leaves the loop
\* and the method, anything else goes on with the next index
split_all_next(r, i, n, tried, c) ==
    IF r.err # "none"
    THEN [st |-> r.st, err |-> r.err, tried |-> Append(tried, Attempt(c, r.err))]
    ELSE split_all_from(r.st, i + 1, n, Append(tried, Attempt(c, "none")))

\* the loop of lines 136-137 from index i on (1-based), n fixed at entry
split_all_from(st, i, n, tried) ==
    IF i > n THEN [st |-> st, err |-> "none", tried |-> tried]
    ELSE split_all_next(split(st, st.cells[i]), i, n, tried, st.cells[i])

\* MultiGrid.split_all_cells; tried lists the calls of split it made
split_all_cells(st) == split_all_from(st, 1, Len(st.cells), <<>>)

\* -------------------------------------------------------- get_all_leaf_cells
RECURSIVE add_children(_, _)
\* add_children that lists a cell with children as well as its descendants
add_children_with_self(st, c) ==
    IF ~has_children(CellOf(st, c)) THEN <<c>>
    ELSE <<c>> \o add_children(st, CellOf(st, c).children["bl"])
         \o add_children(st, CellOf(st, c).children["br"])
         \o add_children(st, CellOf(st, c).children["tl"])
         \o add_children(st, CellOf(st, c).children["tr"])

\* the nested add_children of get_all_leaf_cells: the leaves below cell c
add_children(st, c) ==
    IF ~has_children(CellOf(st, c)) THEN <<c>>
    ELSE LET ch == CellOf(st, c).children
         IN add_children(st, ch["bl"]) \o add_children(st, ch["br"])
            \o add_children(st, ch["tl"]) \o add_children(st, ch["tr"])

RECURSIVE leaves_from(_, _)
leaves_from(st, k) ==
    IF k = 0 THEN <<>>
    ELSE leaves_from(st, k - 1) \o add_children(st, st.cells[k])

\* get_all_leaf_cells looping over the whole cell list
get_all_leaf_cells_every_cell(st) == leaves_from(st, Len(st.cells))

\* MultiGrid.get_all_leaf_cells
get_all_leaf_cells(st) == leaves_from(st, st.cells_in_top_tier)

\* GridCell.coordinates: bl, br, tr, tl
coordinates(st, c) ==
    LET self == CellOf(st, c)
        xy(w) == <<WinOf(st, w).x, WinOf(st, w).y>>
    IN <<xy(self.id_bl), xy(self.id_br), xy(self.id_tr), xy(self.id_tl)>>

\* ------------------------------------------- adaptive_split_peak_value_cells
\* the value of objective field f at the pixel of column x and row y
obj_func(f, x, y) ==
    CASE f = "flat" -> 0
      [] f = "east" -> x
      [] f = "north" -> y
      [] f = "spot" -> IF <<x, y>> = <<3, 0>> THEN 2
                       ELSE IF <<x, y>> = <<4, 0>> THEN 1 ELSE 0

\* a coordinate that is a whole number of pixels can bound a slice
is_index(v) == v % Scale = 0

\* bl and tr of cell c can bound the slices of line 227
sliceable(st, c) ==
    /\ is_index(coordinates(st, c)[1][1]) /\ is_index(coordinates(st, c)[1][2])
    /\ is_index(coordinates(st, c)[3][1]) /\ is_index(coordinates(st, c)[3][2])

\* the pixels of obj_func[lo:hi] along an axis of n pixels
slice(lo, hi, n) == {v \in (lo \div Scale)..((hi \div Scale) - 1) : v < n}

\* the values of sub_region = obj_func[bl[1]:tr[1], bl[0]:tr[0]] (line 227)
sub_region(st, f, bl, tr) ==
    {obj_func(f, x, y) : x \in slice(bl[1], tr[1], st.img_dim[2]),
                         y \in slice(bl[2], tr[2], st.img_dim[1])}

\* np.max of a set of values
np_max(vals) == CHOOSE v \in vals : \A w \in vals : w <= v

\* peak_values (lines 222-228), one per leaf cell
peak_values(st, f, leaf_cells) ==
    [i \in 1..Len(leaf_cells) |->
        np_max(sub_region(st, f, coordinates(st, leaf_cells[i])[1],
                                 coordinates(st, leaf_cells[i])[3]))]

\* the results np.argsort may return for pv restricted to the indices S:
\* ascending, values that compare equal in any order
RECURSIVE np_argsort(_, _)
np_argsort(pv, S) ==
    IF S = {} THEN {<<>>}
    ELSE UNION { {<<i>> \o r : r \in np_argsort(pv, S \ {i})} :
                 i \in {j \in S : \A k \in S : pv[j] <= pv[k]} }

\* ranked without the reversal of I
ranked_ascending(leaf_cells, I) ==
    [k \in 1..Len(I) |-> leaf_cells[I[k]]]

\* lc = leaf_cells[I[::-1]] (line 232)
ranked(leaf_cells, I) ==
    [k \in 1..Len(I) |-> leaf_cells[I[Len(I) + 1 - k]]]

RECURSIVE adaptive_from(_, _, _, _, _, _)
\* adaptive_next without the except clause: an error leaves the method
adaptive_next_raise(r, lc, k, split_counter, max_splits, tried) ==
    IF r.err # "none"
    THEN [st |-> r.st, err |-> r.err, n |-> split_counter,
          tried |-> Append(tried, Attempt(lc[k], r.err))]
    ELSE IF split_counter + 1 = max_splits
    THEN [st |-> r.st, err |-> "none", n |-> split_counter + 1,
          tried |-> Append(tried, Attempt(lc[k], "none"))]
    ELSE adaptive_from(r.st, lc, k + 1, split_counter + 1, max_splits,
                       Append(tried, Attempt(lc[k], "none")))

\* the body of the try statement (lines 239-245) ended as r for the k-th
\* candidate: "except: continue" goes on after any error, a success is
\* counted and the count compared with max_splits
adaptive_next(r, lc, k, split_counter, max_splits, tried) ==
    IF r.err # "none"
    THEN adaptive_from(r.st, lc, k + 1, split_counter, max_splits,
                       Append(tried, Attempt(lc[k], r.err)))
    ELSE IF split_counter + 1 = max_splits
    THEN [st |-> r.st, err |-> "none", n |-> split_counter + 1,
          tried |-> Append(tried, Attempt(lc[k], "none"))]
    ELSE adaptive_from(r.st, lc, k + 1, split_counter + 1, max_splits,
                       Append(tried, Attempt(lc[k], "none")))

\* the loop of lines 237-245 from the k-th candidate on
adaptive_from(st, lc, k, split_counter, max_splits, tried) ==
    IF k > Len(lc)
    THEN [st |-> st, err |-> "none", n |-> split_counter, tried |-> tried]
    ELSE adaptive_next(split(st, lc[k]), lc, k, split_counter, max_splits,
                       tried)

\* lines 234-245 for the ranked candidates lc
adaptive_loop(st, lc) == adaptive_from(st, lc, 1, 0, Len(lc) \div 2, <<>>)

\* the leaf cells whose peak can be computed: line 227 raises for a slice
\* bound that is not a whole number
peaks_raise(st, leaf_cells) ==
    \E i \in 1..Len(leaf_cells) : ~sliceable(st, leaf_cells[i])

\* MultiGrid.adaptive_split_peak_value_cells, given the objective field f
\* and the result I of np.argsort; the error of line 227 leaves the method
\* before any split
adaptive_split_peak_value_cells(st, leaf_cells, I) ==
    IF peaks_raise(st, leaf_cells)
    THEN [st |-> st, err |-> "peak", n |-> 0, tried |-> <<>>]
    ELSE adaptive_loop(st, ranked(leaf_cells, I))

\* ------------------------------------------------------- interp_to_densepred
\* The displacement values of the windows are set from outside the mesh,
\* and scipy's interp2d is a library function: a value is a term naming
\* the window it is read from, an interpolant is a term naming the sample
\* positions and the sample values it is fitted to, and the solution is
\* the term "baseline plus the layers added so far".
\*
\* which windows have a known displacement when the method is called
KnownChoices == { "all", "none", "odd" }
known_value(known, w) ==
    \/ known = "all"
    \/ known = "odd" /\ w % 2 = 1

\* np.arange(0, n, s)
np_arange(n, s) == [i \in 1..ArangeLen(n, s) |-> (i - 1) * s]

\* Grid.get_values for field f ("u" or "v"): nan where the grid holds no
\* window (AttributeError, line 618) or the window's value is unknown
get_values(g, known, f) ==
    [yy \in 0..(g.ny - 1) |-> [xx \in 0..(g.nx - 1) |->
        IF g.array[yy][xx] # None /\ known_value(known, g.array[yy][xx])
        THEN [nan |-> FALSE, f |-> f, w |-> g.array[yy][xx]]
        ELSE [nan |-> TRUE, f |-> f, w |-> None]]]

\* interp.interp2d(x_vec, y_vec, z, kind=method)
interp2d(g, dim, z, method) ==
    [x_vec |-> np_arange(dim[2], g.spacing),
     y_vec |-> np_arange(dim[1], g.spacing), z |-> z, kind |-> method]

\* f(xe, ye) with xe, ye = np.arange(img_dim[1]), np.arange(img_dim[0])
evaluated(interpolant, dim) ==
    [f |-> interpolant, xe |-> np_arange(dim[2], 1), ye |-> np_arange(dim[1], 1)]

\* delta_entry without lines 184-185: a nan stays in the delta
delta_entry_nan_kept(u1, tn, row, col) ==
    [zero |-> FALSE, value |-> u1, minus |-> [after |-> tn - 1, row |-> row, col |-> col]]

\* one entry of u_delta (lines 181-185): the tier's value minus the
\* entry [row][col] of the solution after tier tn - 1, and 0 where that is
\* nan
delta_entry(u1, tn, row, col) ==
    IF u1.nan THEN [zero |-> TRUE]
    ELSE [zero |-> FALSE, value |-> u1,
          minus |-> [after |-> tn - 1, row |-> row, col |-> col]]

\* u_delta of tier tn: u1 - u_soln[::h, ::h], u1 being get_values()
delta(g, u1, tn) ==
    [yy \in 0..(g.ny - 1) |-> [xx \in 0..(g.nx - 1) |->
        delta_entry(u1[yy][xx], tn, yy * g.spacing, xx * g.spacing)]]

\* the term added to the solution by tier tn (lines 173-198)
layer(st, tn, known, method, f) ==
    [tier |-> tn,
     eval |-> evaluated(interp2d(st.grids[tn + 1], st.img_dim,
                  delta(st.grids[tn + 1],
                        get_values(st.grids[tn + 1], known, f), tn),
                  method), st.img_dim)]

\* the loop of line 173 taken from the last tier down
layers_descending(st, known, method, f) ==
    [k \in 1..st.max_tier |-> layer(st, st.max_tier + 1 - k, known, method, f)]

\* the loop of line 173: "for tn in range(1, self.max_tier+1)"
layers(st, known, method, f) ==
    [tn \in 1..st.max_tier |-> layer(st, tn, known, method, f)]

\* u_soln (or v_soln) at the return statement
solution(st, known, method, f) ==
    [base |-> evaluated(interp2d(st.grids[1], st.img_dim,
                            get_values(st.grids[1], known, f), method),
                        st.img_dim),
     added |-> layers(st, known, method, f)]

\* MultiGrid.interp_to_densepred: the u and v handed to DensePredictor
interp_to_densepred(st, known, method) ==
    [u |-> solution(st, known, method, "u"),
     v |-> solution(st, known, method, "v")]

\* ---------------------------------------------------------------- the state
\* last: the last call made on the mesh, the error it ended with ("none"
\* when it returned) and, for split, the number n of cells it split
State == [img_dim |-> img_dim, spacing |-> spacing, windows |-> windows,
          cellobjs |-> cellobjs, cells |-> cells,
          cells_in_top_tier |-> cells_in_top_tier,
          grids |-> grids, max_tier |-> max_tier]

SetState(st) ==
    /\ img_dim' = st.img_dim
    /\ spacing' = st.spacing
    /\ windows' = st.windows
    /\ cellobjs' = st.cellobjs
    /\ cells' = st.cells
    /\ cells_in_top_tier' = st.cells_in_top_tier
    /\ grids' = st.grids
    /\ max_tier' = st.max_tier

\* the variables hold the mesh st constructed with window size WS; the
\* constructor has no raise statement
Constructed(st, WS) ==
    /\ img_dim = st.img_dim
    /\ spacing = st.spacing
    /\ windows = st.windows
    /\ cellobjs = st.cellobjs
    /\ cells = st.cells
    /\ cells_in_top_tier = st.cells_in_top_tier
    /\ grids = st.grids
    /\ max_tier = st.max_tier
    /\ last = [op |-> "init", cell |-> None, ws |-> WS,
               err |-> "none", n |-> 0]

\* no DensePredictor has been constructed
NoPredictor == dp = <<>> /\ dp_last = [op |-> "none", err |-> "none"]

Init ==
    /\ \E cfg \in Configs, WS \in WSizes :
           Constructed(MultiGridInit(<<cfg[1], cfg[2]>>, cfg[3], WS), WS)
    /\ NoPredictor

\* the mesh and the call record after split(c) ended as r
SplitDone(c, r) ==
    /\ SetState(r.st)
    /\ last' = [op |-> "split", cell |-> c, ws |-> None,
                err |-> r.err, n |-> r.n]

\* a caller invokes split on some GridCell object
Split(c) ==
    /\ Len(cellobjs) <= MaxCells
    /\ cellobjs[c + 1].tier <= MaxTier
    /\ SplitDone(c, split(State, c))

\* the mesh and the call record after new_tier() ended as r
NewTierDone(r) ==
    /\ SetState(r.st)
    /\ last' = [op |-> "new_tier", cell |-> None, ws |-> None,
                err |-> r.err, n |-> 0]

\* a caller invokes new_tier directly
NewTier == NewTierDone(new_tier(State))

\* the call record after get_all_leaf_cells() returned out; the method
\* assigns to nothing but its local list
LeafCellsDone(out) ==
    /\ SetState(State)
    /\ last' = [op |-> "leaf_cells", cell |-> None, ws |-> None,
                err |-> "none", n |-> 0, out |-> out]

\* a caller invokes get_all_leaf_cells
GetAllLeafCells == LeafCellsDone(get_all_leaf_cells(State))

\* the mesh and the call record after split_all_cells() ended as r
SplitAllDone(r) ==
    /\ SetState(r.st)
    /\ last' = [op |-> "split_all", cell |-> None, ws |-> None,
                err |-> r.err, n |-> 0, tried |-> r.tried]

\* a caller invokes split_all_cells
SplitAll ==
    /\ Len(cellobjs) <= MaxCells
    /\ \A c \in 0..(Len(cellobjs) - 1) : cellobjs[c + 1].tier <= MaxTier
    /\ SplitAllDone(split_all_cells(State))

\* the mesh and the call record after adaptive_split_peak_value_cells(f)
\* ended as r; the record keeps the field, the number n of successful
\* calls of split of the loop and the calls it made
AdaptiveDone(f, r) ==
    /\ SetState(r.st)
    /\ last' = [op |-> "adaptive", cell |-> None, ws |-> None,
                err |-> r.err, n |-> r.n, tried |-> r.tried, obj |-> f]

\* the indices np.argsort may return for the peaks of the leaf cells; any
\* order when the peaks cannot be computed
ArgSorts(st, f, leaf_cells) ==
    IF peaks_raise(st, leaf_cells) THEN {[i \in 1..Len(leaf_cells) |-> i]}
    ELSE np_argsort(peak_values(st, f, leaf_cells), 1..Len(leaf_cells))

\* a caller invokes adaptive_split_peak_value_cells with some field
AdaptiveSplit ==
    /\ Len(cellobjs) <= MaxCells
    /\ Len(get_all_leaf_cells(State)) <= MaxLeaves
    /\ \A c \in 0..(Len(cellobjs) - 1) : cellobjs[c + 1].tier <= MaxTier
    /\ \E f \in Objectives :
           \E I \in ArgSorts(State, f, get_all_leaf_cells(State)) :
               AdaptiveDone(f, adaptive_split_peak_value_cells(
                                   State, get_all_leaf_cells(State), I))

\* the call record after interp_to_densepred(method) returned out; the
\* method assigns to no attribute of the mesh
InterpDone(known, method, out) ==
    /\ SetState(State)
    /\ last' = [op |-> "interp", cell |-> None, ws |-> None, err |-> "none",
                n |-> 0, known |-> known, method |-> method, out |-> out]

\* a caller invokes interp_to_densepred
InterpToDensePred ==
    \E known \in KnownChoices, method \in {"linear", "cubic"} :
        InterpDone(known, method, interp_to_densepred(State, known, method))

Next ==
    \/ (\E c \in 0..(Len(cellobjs) - 1) : Split(c)) /\ UNCHANGED <<dp, dp_last>>
    \/ NewTier /\ UNCHANGED <<dp, dp_last>>
    \/ GetAllLeafCells /\ UNCHANGED <<dp, dp_last>>
    \/ SplitAll /\ UNCHANGED <<dp, dp_last>>
    \/ AdaptiveSplit /\ UNCHANGED <<dp, dp_last>>
    \/ InterpToDensePred /\ UNCHANGED <<dp, dp_last>>

Spec == Init /\ [][Next]_vars

\* ----------------------------------------------------------- DensePredictor
\* get_region is requested with a radius of 0..MaxRad and with a centre at
\* most MaxOff pixels outside the image
MaxRad == 2
MaxOff == 1
\* the (rows, columns) shapes of the arrays a DensePredictor is built from
Shapes == { <<2, 3>>, <<3, 2>>, <<1, 1>> }

\* a 2-d array of the given shape holding f[r][c] at row r, column c
ndarray(shape, f) ==
    [shape |-> shape,
     a |-> [r \in 0..(shape[1] - 1) |-> [c \in 0..(shape[2] - 1) |-> f[r][c]]]]

np_shape(A) == A.shape

\* the fields handed to the constructor: every entry of u and of v differs
\* from every other and from 0, the mask flags alternate
UField(shape) ==
    ndarray(shape, [r \in 0..(shape[1] - 1) |->
                       [c \in 0..(shape[2] - 1) |-> 10 * r + c + 1]])
VField(shape) ==
    ndarray(shape, [r \in 0..(shape[1] - 1) |->
                       [c \in 0..(shape[2] - 1) |-> 100 + 10 * r + c]])
MaskField(shape) ==
    ndarray(shape, [r \in 0..(shape[1] - 1) |->
                       [c \in 0..(shape[2] - 1) |-> (r + c) % 2]])

\* the mask argument: None, or an array
MaskArgs ==
    {[given |-> FALSE]} \cup {[given |-> TRUE, arr |-> MaskField(s)] : s \in Shapes}

\* an array of zeros, the default mask the docstring speaks of
np_zeros(shape) ==
    ndarray(shape, [r \in 0..(shape[1] - 1) |->
                       [c \in 0..(shape[2] - 1) |-> 0]])

\* np.ones(shape)
np_ones(shape) ==
    ndarray(shape, [r \in 0..(shape[1] - 1) |->
                       [c \in 0..(shape[2] - 1) |-> 1]])

\* the constructor without the test of the mask's shape
DensePredictor_any_mask(u, v, mask) ==
    IF np_shape(u) # np_shape(v) THEN [err |-> "ValueError"]
    ELSE [err |-> "none",
          obj |-> [u |-> u, v |-> v,
                   mask |-> IF mask.given THEN mask.arr
                            ELSE np_ones(np_shape(u)),
                   has_mask |-> mask.given,
                   n_rows |-> np_shape(u)[1],
                   n_cols |-> np_shape(u)[2],
                   img_dim |-> <<np_shape(u)[1], np_shape(u)[2]>>]]

\* DensePredictor.__init__ (lines 30-46)
DensePredictor(u, v, mask) ==
    IF np_shape(u) # np_shape(v) THEN [err |-> "ValueError"]
    ELSE IF mask.given /\ np_shape(u) # np_shape(mask.arr)
    THEN [err |-> "ValueError"]
    ELSE [err |-> "none",
          obj |-> [u |-> u, v |-> v,
                   mask |-> IF mask.given THEN mask.arr
                            ELSE np_ones(np_shape(u)),
                   has_mask |-> mask.given,
                   n_rows |-> np_shape(u)[1],
                   n_cols |-> np_shape(u)[2],
                   img_dim |-> <<np_shape(u)[1], np_shape(u)[2]>>]]

max(a, b) == IF a >= b THEN a ELSE b
min(a, b) == IF a <= b THEN a ELSE b

\* "max(min(i, n - 1), 0)" (lines 92-95)
clamp(i, n) == max(min(i, n - 1), 0)

\* A[r0:r1, c0:c1] for 0 <= r0 and 0 <= c0; a stop beyond the array ends
\* at the array's edge
view(A, r0, r1, c0, c1) ==
    ndarray(<<max(min(r1, A.shape[1]) - r0, 0), max(min(c1, A.shape[2]) - c0, 0)>>,
            [r \in 0..(min(r1, A.shape[1]) - r0 - 1) |->
                [c \in 0..(min(c1, A.shape[2]) - c0 - 1) |-> A.a[r0 + r][c0 + c]]])

\* np.pad(A, ((pb, pt), (pl, pr)), 'constant', constant_values=0)
np_pad(A, pb, pt, pl, pr) ==
    ndarray(<<A.shape[1] + pb + pt, A.shape[2] + pl + pr>>,
            [r \in 0..(A.shape[1] + pb + pt - 1) |->
                [c \in 0..(A.shape[2] + pl + pr - 1) |->
                    IF /\ r - pb \in 0..(A.shape[1] - 1)
                       /\ c - pl \in 0..(A.shape[2] - 1)
                    THEN A.a[r - pb][c - pl] ELSE 0]])

\* lines 103-107: the truncate branch, u and v being the views of lines
\* 99-100
truncated(self, u, v, left, right, bottom, top) ==
    [err |-> "none", u |-> u, v |-> v,
     mask |-> IF self.has_mask
              THEN view(self.mask, bottom, top + 1, left, right + 1)
              ELSE np_ones(np_shape(u))]

\* lines 116-123: without a mask the name mask is never bound and the
\* return statement raises
pad_views(self, u, v, left, right, bottom, top, pb, pt, pl, pr) ==
    IF self.has_mask
    THEN [err |-> "none",
          u |-> np_pad(u, pb, pt, pl, pr),
          v |-> np_pad(v, pb, pt, pl, pr),
          mask |-> np_pad(view(self.mask, bottom, top + 1, left, right + 1),
                          pb, pt, pl, pr)]
    ELSE [err |-> "UnboundLocalError"]

\* padded with the padding of the left put on the right and that of the
\* bottom on the top
padded_mirrored(self, x, y, rad, u, v, left, right, bottom, top) ==
    pad_views(self, u, v, left, right, bottom, top,
              max(y + rad - self.n_rows + 1, 0), max(rad - y, 0),
              max(x + rad - self.n_cols + 1, 0), max(rad - x, 0))

\* lines 109-114: the pad widths pb, pt, pl, pr
padded(self, x, y, rad, u, v, left, right, bottom, top) ==
    pad_views(self, u, v, left, right, bottom, top,
              max(rad - y, 0), max(y + rad - self.n_rows + 1, 0),
              max(rad - x, 0), max(x + rad - self.n_cols + 1, 0))

\* lines 99-123 for the limits of lines 92-95
region(self, x, y, rad, truncate, left, right, bottom, top) ==
    IF truncate
    THEN truncated(self, view(self.u, bottom, top + 1, left, right + 1),
                   view(self.v, bottom, top + 1, left, right + 1),
                   left, right, bottom, top)
    ELSE padded(self, x, y, rad,
                view(self.u, bottom, top + 1, left, right + 1),
                view(self.v, bottom, top + 1, left, right + 1),
                left, right, bottom, top)

\* DensePredictor.get_region
get_region(self, x, y, rad, truncate) ==
    region(self, x, y, rad, truncate,
           clamp(x - rad, self.n_cols), clamp(x + rad, self.n_cols),
           clamp(y - rad, self.n_rows), clamp(y + rad, self.n_rows))

\* the mesh plays no part in the calls on a DensePredictor
MeshIdle ==
    UNCHANGED <<img_dim, spacing, windows, cellobjs, cells,
                cells_in_top_tier, grids, max_tier, last>>

\* the variables after DensePredictor(u, v, mask) ended as r
PredictorConstructed(u, v, mask, r) ==
    /\ dp = IF r.err = "none" THEN <<r.obj>> ELSE <<>>
    /\ dp_last = [op |-> "init", err |-> r.err, u |-> u, v |-> v, mask |-> mask]

InitDP ==
    /\ Constructed(MultiGridInit(<<2, 2>>, 1, 5), 5)
    /\ \E su \in Shapes, sv \in Shapes, mask \in MaskArgs :
           PredictorConstructed(UField(su), VField(sv), mask,
                                DensePredictor(UField(su), VField(sv), mask))

\* the call record after get_region(x, y, rad, truncate) ended as r; the
\* method assigns to no attribute
RegionDone(x, y, rad, truncate, r) ==
    /\ dp' = dp
    /\ dp_last' = [op |-> "get_region", err |-> r.err, x |-> x, y |-> y,
                   rad |-> rad, truncate |-> truncate, out |-> r]
    /\ MeshIdle

\* a caller invokes get_region on the constructed object
GetRegion ==
    /\ dp # <<>>
    /\ \E x \in (-MaxOff)..(dp[1].n_cols - 1 + MaxOff),
          y \in (-MaxOff)..(dp[1].n_rows - 1 + MaxOff),
          rad \in 0..MaxRad, truncate \in BOOLEAN :
           RegionDone(x, y, rad, truncate,
                      get_region(dp[1], x, y, rad, truncate))

NextDP == GetRegion

SpecDP == InitDP /\ [][NextDP]_vars

\* ------------------------------------------------------- shared vocabulary
\* the mesh proper, without the record of the last call
mesh == <<windows, cellobjs, cells, grids, max_tier>>

CellIds == 0..(Len(cellobjs) - 1)
Obj(c) == cellobjs[c + 1]
Win(w) == windows[w + 1]

\* the leaf cells of the current mesh and their number
Leaves == get_all_leaf_cells(State)
NLeaves == Len(Leaves)

\* the last call was a split that returned normally
SplitOk(l) == l.op = "split" /\ l.err = "none"

\* ------------------------------------------------------------------- C1
\* C1: neighbour links are symmetric at every tier: A.north is B exactly
\* when B.south is A, and A.east is B exactly when B.west is A.
C1_NeighbourSymmetry ==
    \A a \in CellIds, b \in CellIds :
        /\ (Obj(a).north = b) <=> (Obj(b).south = a)
        /\ (Obj(a).east = b) <=> (Obj(b).west = a)

\* a split that cascaded into a neighbour has linked children of two
\* different parents, in both directions
C1_Witness ==
    /\ SplitOk(last) /\ last.n >= 2
    /\ \E a \in CellIds, b \in CellIds :
          /\ Obj(a).tier > 0
          /\ Obj(a).parent # Obj(b).parent
          /\ \/ Obj(a).north = b
             \/ Obj(a).east = b

\* ------------------------------------------------------------------- C2
\* the corner rectangle of a cell: bottom-left and top-right corners
Rect(c) ==
    [x0 |-> coordinates(State, c)[1][1], y0 |-> coordinates(State, c)[1][2],
     x1 |-> coordinates(State, c)[3][1], y1 |-> coordinates(State, c)[3][2]]

\* the rectangles of the leaf cells, in the order of get_all_leaf_cells
LeafRects == [i \in 1..NLeaves |-> Rect(Leaves[i])]

RECURSIVE AreaSum(_, _)
AreaSum(rects, k) ==
    IF k = 0 THEN 0
    ELSE AreaSum(rects, k - 1)
         + (rects[k].x1 - rects[k].x0) * (rects[k].y1 - rects[k].y0)

\* two rectangles share interior area
Overlap(r, q) ==
    /\ r.x0 < q.x1 /\ q.x0 < r.x1
    /\ r.y0 < q.y1 /\ q.y0 < r.y1

\* rects cover [0, X] x [0, Y] exactly once: each has positive area and
\* lies inside, no two overlap, and their areas add up to the whole
Tiles(rects, X, Y) ==
    /\ \A i \in DOMAIN rects :
          /\ 0 <= rects[i].x0 /\ rects[i].x0 < rects[i].x1 /\ rects[i].x1 <= X
          /\ 0 <= rects[i].y0 /\ rects[i].y0 < rects[i].y1 /\ rects[i].y1 <= Y
    /\ \A i \in DOMAIN rects, j \in DOMAIN rects :
          i # j => ~Overlap(rects[i], rects[j])
    /\ AreaSum(rects, Len(rects)) = X * Y

\* the largest multiple of the spacing below n (0 for an empty axis)
LastMultiple(n) == IF n <= 0 THEN 0 ELSE ((n - 1) \div spacing) * spacing

\* C2 (as claimed): the leaf rectangles cover the full image domain, the
\* img_dim[2] x img_dim[1] pixel areas, exactly once.
C2_ImageTiled == Tiles(LeafRects, img_dim[2] * Scale, img_dim[1] * Scale)

\* C2 (amended): the leaf rectangles cover exactly once the rectangle
\* spanned by the tier-0 grid points, from (0, 0) to the last multiples of
\* the spacing below the image width and height.
C2_GridExtentTiled ==
    Tiles(LeafRects, LastMultiple(img_dim[2]) * Scale,
          LastMultiple(img_dim[1]) * Scale)

\* leaves of three tiers tile a mesh of two tier-0 cells after a split that
\* cascaded into the neighbouring tier-0 cell
C2_Witness ==
    /\ SplitOk(last) /\ last.n >= 2
    /\ cells_in_top_tier >= 2
    /\ \E i \in 1..NLeaves : Obj(Leaves[i]).tier = 2
    /\ \E i \in 1..NLeaves : Obj(Leaves[i]).tier = 1
    /\ NLeaves >= 10

\* ------------------------------------------------------------------- C3
\* no two entries of the point list lie at the same (x, y)
NoCoincidentPoints ==
    \A i \in DOMAIN windows, j \in DOMAIN windows :
        (windows[i].x = windows[j].x /\ windows[i].y = windows[j].y) => i = j

\* two split cells that share an edge: their children along the edge
\* reference the same point index for the edge midpoint
SharedMidpoints ==
    \A a \in CellIds, b \in CellIds :
        (has_children(Obj(a)) /\ has_children(Obj(b))) =>
            /\ Obj(a).east = b =>
                  Obj(Obj(a).children.br).id_tr = Obj(Obj(b).children.bl).id_tl
            /\ Obj(a).north = b =>
                  Obj(Obj(a).children.tl).id_tr = Obj(Obj(b).children.bl).id_br

\* C3: a point is created at most once per physical location, and the
\* midpoint of an edge shared by two split cells is one point index.
C3_PointDedup == NoCoincidentPoints /\ SharedMidpoints

\* ------------------------------------------------------------------- C4
\* the step is a call of split that ended with the error err
SplitEnded(err) == last'.op = "split" /\ last'.err = err

\* C4: a split that fails because the new tier cannot be created leaves
\* the point list, the cell list, every cell's children, the leaf set,
\* max_tier and the tier grids as they were before the call.
C4_FailedSplitKeepsMesh ==
    [][SplitEnded("refine") =>
          /\ windows' = windows
          /\ cells' = cells
          /\ \A c \in CellIds : cellobjs'[c + 1].children = Obj(c).children
          /\ Leaves' = Leaves
          /\ max_tier' = max_tier
          /\ grids' = grids]_vars

\* ------------------------------------------------------------------- C5
\* the number of cells that get children in the step
NewlySplit ==
    Cardinality({c \in CellIds :
                    ~has_children(Obj(c)) /\ has_children(cellobjs'[c + 1])})

\* C5 (as claimed): every successful call of split increases the number of
\* leaf cells by exactly 3.
C5_LeafGrowthThree == [][SplitOk(last') => NLeaves' = NLeaves + 3]_vars

\* C5 (amended): a successful call of split increases the number of leaf
\* cells by exactly 3 for each cell it splits, the requested cell and each
\* neighbour its balancing step splits; by exactly 3 when nothing cascades.
C5_LeafGrowthPerSplit ==
    [][SplitOk(last') =>
          /\ NewlySplit >= 1
          /\ has_children(cellobjs'[last'.cell + 1])
          /\ NLeaves' = NLeaves + 3 * NewlySplit]_vars

\* a successful split whose balancing step split a neighbour
C5_Witness ==
    /\ SplitOk(last) /\ last.n >= 2
    /\ Obj(last.cell).tier >= 1
    /\ NLeaves >= 8

\* ------------------------------------------------------------------- C6
\* C6 (as claimed): every successful call of split appends at least 1 and
\* at most 5 points.
C6_PointGrowthFive ==
    [][SplitOk(last') =>
          /\ Len(windows') >= Len(windows) + 1
          /\ Len(windows') <= Len(windows) + 5]_vars

\* C6 (amended): a successful call of split appends at least 1 and at most
\* 5 points for each cell it splits, the requested cell and each neighbour
\* its balancing step splits; between 1 and 5 when nothing cascades.
C6_PointGrowthPerSplit ==
    [][SplitOk(last') =>
          /\ NewlySplit >= 1
          /\ Len(windows') >= Len(windows) + NewlySplit
          /\ Len(windows') <= Len(windows) + 5 * NewlySplit
          /\ \A i \in DOMAIN windows : windows'[i] = windows[i]]_vars

\* a successful split that cascaded and left more than 5 new points
C6_Witness ==
    /\ SplitOk(last) /\ last.n >= 2
    /\ cells_in_top_tier = 2
    /\ Len(windows) >= 6 + 5 + 6

\* ------------------------------------------------------------------- C7
\* C7: split on a cell that has children raises the error and changes
\* nothing: points, cells, children, neighbour links, max_tier and grids
\* stay as they were (so the children of a cell are never replaced).
C7_SplitTwiceRejected ==
    [][(last'.op = "split" /\ has_children(Obj(last'.cell))) =>
          /\ last'.err = "already"
          /\ windows' = windows
          /\ cells' = cells
          /\ cellobjs' = cellobjs
          /\ max_tier' = max_tier
          /\ grids' = grids]_vars

\* split was called on a cell that had already been split successfully
C7_Witness ==
    /\ last.op = "split" /\ last.err = "already" /\ last.n = 0
    /\ has_children(Obj(last.cell))
    /\ \A k \in KeySet : \E i \in DOMAIN cells :
          cells[i] = Obj(last.cell).children[k]

\* ------------------------------------------------------------------- C8
\* all entries of a grid array are empty
EmptyGrid(g) ==
    \A i \in DOMAIN g.array : \A j \in DOMAIN g.array[i] : g.array[i][j] = None

\* the step is a direct call of new_tier
NewTierCalled == last'.op = "new_tier"

\* half of the deepest tier's spacing is an exact integer
HalfIsInteger == spacing % (2 ^ (max_tier + 1)) = 0

\* C8: new_tier succeeds exactly when half of the deepest tier's spacing is
\* an integer; then max_tier grows by one and one empty grid of that half
\* spacing is appended; otherwise it raises and max_tier and the grids are
\* unchanged.  From spacing 6 it succeeds once (3), from spacing 8 three
\* times (4, 2, 1).
C8_NewTierRule ==
    [][NewTierCalled =>
          /\ HalfIsInteger <=> last'.err = "none"
          /\ ~HalfIsInteger <=> last'.err = "refine"
          /\ HalfIsInteger =>
                /\ max_tier' = max_tier + 1
                /\ Len(grids') = Len(grids) + 1
                /\ \A t \in DOMAIN grids : grids'[t] = grids[t]
                /\ grids'[Len(grids')].spacing * (2 ^ (max_tier + 1)) = spacing
                /\ EmptyGrid(grids'[Len(grids')])
          /\ ~HalfIsInteger => (max_tier' = max_tier /\ grids' = grids)
          /\ spacing = 6 => (last'.err = "none" <=> max_tier = 0)
          /\ spacing = 8 => (last'.err = "none" <=> max_tier < 3)]_vars

\* from spacing 8 three tiers were added (4, 2, 1) and the fourth request
\* was refused
C8_Witness ==
    /\ last.op = "new_tier" /\ last.err = "refine"
    /\ spacing = 8 /\ max_tier = 3
    /\ Len(grids) = 4
    /\ grids[2].spacing = 4 /\ grids[3].spacing = 2 /\ grids[4].spacing = 1

\* ------------------------------------------------------------------- C9
\* the grid coordinates of an axis of n pixels: 0, s, 2s, ... below n
AxisPoints(n) == {x \in 0..(n - 1) : x % spacing = 0}
NX == Cardinality(AxisPoints(img_dim[2]))
NY == Cardinality(AxisPoints(img_dim[1]))

\* the image and the spacing leave fewer than two grid points in an axis,
\* so that no cell can be formed
Degenerate == NX < 2 \/ NY < 2

IsBlockCell(c, col, row) ==
    /\ Obj(c).tier = 0 /\ Obj(c).parent = None
    /\ Obj(c).ix = col /\ Obj(c).iy = row
    /\ Obj(c).id_bl = row * NX + col
    /\ Obj(c).id_br = row * NX + col + 1
    /\ Obj(c).id_tl = (row + 1) * NX + col
    /\ Obj(c).id_tr = (row + 1) * NX + col + 1

\* C10: construction creates one point per grid position, row by row, all
\* with the window size given, registers each at [row][col] of the tier-0
\* grid, and creates one tier-0 cell per 2x2 block of adjacent grid points
\* with (ix, iy) = (col, row) and that block's points as corners; a 4x4
\* image with spacing 2 gives the points (0,0), (2,0), (0,2), (2,2) and
\* one cell.
C10_Construction ==
    last.op = "init" =>
        /\ Len(windows) = NX * NY
        /\ \A row \in 0..(NY - 1), col \in 0..(NX - 1) :
              /\ Win(row * NX + col) = [x |-> col * spacing * Scale,
                                        y |-> row * spacing * Scale,
                                        WS |-> last.ws]
              /\ grids[1].array[row][col] = row * NX + col
        /\ Len(grids) = 1 /\ max_tier = 0 /\ grids[1].spacing = spacing
        /\ DOMAIN grids[1].array = 0..(NY - 1)
        /\ \A row \in 0..(NY - 1) : DOMAIN grids[1].array[row] = 0..(NX - 1)
        /\ Len(cells) = (IF Degenerate THEN 0 ELSE (NX - 1) * (NY - 1))
        /\ Len(cellobjs) = Len(cells)
        /\ cells_in_top_tier = Len(cells)
        /\ \A row \in 0..(NY - 2), col \in 0..(NX - 2) :
              /\ cells[row * (NX - 1) + col + 1] = row * (NX - 1) + col
              /\ IsBlockCell(row * (NX - 1) + col, col, row)
        /\ \A c \in CellIds : ~has_children(Obj(c))
        /\ (img_dim = <<4, 4>> /\ spacing = 2) =>
              /\ [i \in 1..4 |-> <<windows[i].x, windows[i].y>>]
                    = << <<0, 0>>, <<2 * Scale, 0>>,
                         <<0, 2 * Scale>>, <<2 * Scale, 2 * Scale>> >>
              /\ Len(cells) = 1

\* a freshly constructed mesh of 3 x 3 points and 2 x 2 cells
C10_Witness ==
    /\ last.op = "init"
    /\ NX = 3 /\ NY = 3
    /\ Len(windows) = 9 /\ Len(cells) = 4

\* ------------------------------------------------------------------- C11
\* the child of cell p under key k
Child(p, k) == Obj(Obj(p).children[k])

\* the position of a window, as a pair
Pos(w) == <<Win(w).x, Win(w).y>>

\* the point halfway between two windows (doubled, to stay in integers)
TwiceMid(w1, w2) == <<Win(w1).x + Win(w2).x, Win(w1).y + Win(w2).y>>
Twice(w) == <<2 * Win(w).x, 2 * Win(w).y>>

\* the child under key k has the tier, the parent reference and the grid
\* indices of the child at offset (dx, dy)
ChildPlaced(p, k, dx, dy) ==
    /\ Obj(p).children[k] \in CellIds
    /\ Child(p, k).tier = Obj(p).tier + 1
    /\ Child(p, k).parent = p
    /\ Child(p, k).ix = 2 * Obj(p).ix + dx
    /\ Child(p, k).iy = 2 * Obj(p).iy + dy

\* the corners of the four children are the parent's four corners, the
\* four edge midpoints and the centre, in bl/br/tl/tr arrangement
NinePoints(p) ==
    /\ Child(p, "bl").id_bl = Obj(p).id_bl
    /\ Child(p, "br").id_br = Obj(p).id_br
    /\ Child(p, "tl").id_tl = Obj(p).id_tl
    /\ Child(p, "tr").id_tr = Obj(p).id_tr
    \* south-mid, west-mid, north-mid, east-mid
    /\ Child(p, "bl").id_br = Child(p, "br").id_bl
    /\ Twice(Child(p, "bl").id_br) = TwiceMid(Obj(p).id_bl, Obj(p).id_br)
    /\ Child(p, "bl").id_tl = Child(p, "tl").id_bl
    /\ Twice(Child(p, "bl").id_tl) = TwiceMid(Obj(p).id_bl, Obj(p).id_tl)
    /\ Child(p, "tl").id_tr = Child(p, "tr").id_tl
    /\ Twice(Child(p, "tl").id_tr) = TwiceMid(Obj(p).id_tl, Obj(p).id_tr)
    /\ Child(p, "br").id_tr = Child(p, "tr").id_br
    /\ Twice(Child(p, "br").id_tr) = TwiceMid(Obj(p).id_br, Obj(p).id_tr)
    \* centre
    /\ Child(p, "bl").id_tr = Child(p, "br").id_tl
    /\ Child(p, "bl").id_tr = Child(p, "tl").id_br
    /\ Child(p, "bl").id_tr = Child(p, "tr").id_bl
    /\ Twice(Child(p, "bl").id_tr) = TwiceMid(Obj(p).id_bl, Obj(p).id_tr)

\* C11: a cell with children has exactly four, keyed bl, br, tl, tr, each
\* of tier parent.tier + 1, each with the cell as parent, with grid indices
\* (2ix, 2iy), (2ix+1, 2iy), (2ix, 2iy+1), (2ix+1, 2iy+1), and with the
\* matching four of the nine points as corners.
C11_ChildrenLayout ==
    \A p \in CellIds :
        has_children(Obj(p)) =>
            /\ DOMAIN Obj(p).children = KeySet
            /\ Cardinality({Obj(p).children[k] : k \in KeySet}) = 4
            /\ ChildPlaced(p, "bl", 0, 0)
            /\ ChildPlaced(p, "br", 1, 0)
            /\ ChildPlaced(p, "tl", 0, 1)
            /\ ChildPlaced(p, "tr", 1, 1)
            /\ NinePoints(p)

\* a cell of tier 1 with non-zero grid indices has been split next to a
\* split neighbour, so that some of its nine points were reused
C11_Witness ==
    \E p \in CellIds :
        /\ has_children(Obj(p))
        /\ Obj(p).tier = 1 /\ Obj(p).ix = 1
        /\ Obj(p).west # None /\ has_children(Obj(Obj(p).west))
        /\ Child(p, "tr").tier = 2 /\ Child(p, "tr").ix = 3
        /\ Child(p, "bl").id_tl = Child(Obj(p).west, "br").id_tr

\* ------------------------------------------------------------------- C12
\* the set of the four corner point indices of a cell object
Corners(o) == {o.id_bl, o.id_br, o.id_tl, o.id_tr}

\* the number of corner points two children of p have in common
SharedCorners(p, j, k) ==
    Cardinality(Corners(Child(p, j)) \cap Corners(Child(p, k)))

\* siblings that lie across the centre from each other
Diagonal(j, k) == {j, k} \in {{"bl", "tr"}, {"br", "tl"}}

\* C12 as stated: each child of a split cell shares exactly one corner
\* point with each of its three siblings.
C12_OneSharedCorner ==
    \A p \in CellIds :
        has_children(Obj(p)) =>
            \A j \in KeySet : \A k \in KeySet \ {j} :
                SharedCorners(p, j, k) = 1

\* C12 amended: each child of a split cell has four distinct corner points,
\* shares exactly two of them (the ends of the common edge) with each of
\* its two edge-adjacent siblings and exactly one, the centre, with its
\* diagonal sibling.
C12_SharedCorners ==
    \A p \in CellIds :
        has_children(Obj(p)) =>
            \A j \in KeySet :
                /\ Cardinality(Corners(Child(p, j))) = 4
                /\ \A k \in KeySet \ {j} :
                    /\ Diagonal(j, k) =>
                        Corners(Child(p, j)) \cap Corners(Child(p, k))
                            = {Child(p, "bl").id_tr}
                    /\ ~Diagonal(j, k) => SharedCorners(p, j, k) = 2

\* a cell of tier 1 and its tier-0 parent have both been split
C12_Witness ==
    \E p \in CellIds :
        /\ has_children(Obj(p))
        /\ Obj(p).tier = 1
        /\ SharedCorners(p, "bl", "br") = 2
        /\ SharedCorners(Obj(p).parent, "tl", "br") = 1

\* ------------------------------------------------------------------- C13
\* the position of cell c in the cell list, 0 when it is not in it
RECURSIVE PosInCells(_, _)
PosInCells(c, k) ==
    IF k = 0 THEN 0
    ELSE IF cells[k] = c THEN k ELSE PosInCells(c, k - 1)

\* the rank of the key under which cell c hangs below its parent
KeyRank(c) ==
    IF Obj(Obj(c).parent).children["bl"] = c THEN 1
    ELSE IF Obj(Obj(c).parent).children["br"] = c THEN 2
    ELSE IF Obj(Obj(c).parent).children["tl"] = c THEN 3
    ELSE IF Obj(Obj(c).parent).children["tr"] = c THEN 4
    ELSE 0

\* the way down to cell c: the position of its tier-0 ancestor in the cell
\* list, then the ranks of the keys followed from there
RECURSIVE PathTo(_)
PathTo(c) ==
    IF Obj(c).parent = None THEN <<PosInCells(c, Len(cells))>>
    ELSE Append(PathTo(Obj(c).parent), KeyRank(c))

\* c hangs below one of the tier-0 cells of the cell list
Reachable(c) ==
    /\ PathTo(c)[1] \in 1..cells_in_top_tier
    /\ \A k \in 2..Len(PathTo(c)) : PathTo(c)[k] # 0

\* path p comes before path q in lexicographic order
LexLess(p, q) ==
    \E k \in 1..Len(p) :
        /\ k <= Len(q)
        /\ p[k] < q[k]
        /\ \A m \in 1..(k - 1) : p[m] = q[m]

\* out lists exactly the reachable childless cells, once each, in the
\* order of their tier-0 ancestors and of the keys bl, br, tl, tr
LeafList(out) ==
    /\ {out[i] : i \in 1..Len(out)}
           = {c \in CellIds : ~has_children(Obj(c)) /\ Reachable(c)}
    /\ \A i \in 1..Len(out) : \A j \in (i + 1)..Len(out) :
           /\ out[i] # out[j]
           /\ LexLess(PathTo(out[i]), PathTo(out[j]))

\* C13: get_all_leaf_cells returns exactly the cells without children that
\* are reachable from a tier-0 cell, each once, by tier-0 cell in
\* construction order with a split cell replaced in place by its
\* descendants in bl, br, tl, tr order, and changes nothing in the mesh.
C13_LeafCells ==
    [][last'.op = "leaf_cells" =>
          /\ State' = State
          /\ LeafList(last'.out)]_vars

\* the leaves of a mesh with cells of three tiers have been listed
C13_Witness ==
    /\ last.op = "leaf_cells"
    /\ \E i \in 1..Len(last.out) : Obj(last.out[i]).tier = 2
    /\ \E i \in 1..Len(last.out) :
           /\ Obj(last.out[i]).tier = 0
           /\ \E j \in 1..(i - 1) : Obj(last.out[j]).tier = 1

\* ------------------------------------------------------------------- C14
\* the cells a loop called split on, as a set
TriedCells(tried) == {tried[i].cell : i \in 1..Len(tried)}

\* the tier below every leaf exists or can be added: the side of the
\* smallest leaf is even
RECURSIVE DeepestTier(_, _)
DeepestTier(ls, k) ==
    IF k = 0 THEN 0
    ELSE IF Obj(ls[k]).tier > DeepestTier(ls, k - 1)
         THEN Obj(ls[k]).tier ELSE DeepestTier(ls, k - 1)

OneMoreTier == spacing % (2 ^ (DeepestTier(Leaves, NLeaves) + 1)) = 0

\* C14: where one more tier can be added, split_all_cells calls split once
\* on every cell that is a leaf when the call starts and on no other cell
\* and returns without error, so that each of those cells has four
\* children afterwards; on a fresh mesh and on later passes alike.
C14_UniformPass ==
    [][(last'.op = "split_all" /\ OneMoreTier) =>
          /\ last'.err = "none"
          /\ TriedCells(last'.tried) = {Leaves[i] : i \in 1..NLeaves}
          /\ Len(last'.tried) = NLeaves
          /\ \A i \in 1..NLeaves : has_children(cellobjs'[Leaves[i] + 1])]_vars

\* ------------------------------------------------------------------- C15
\* the step is a call of adaptive_split_peak_value_cells
AdaptiveCalled == last'.op = "adaptive"

\* the number of successful calls among the first k calls of a loop
Successes(tried, k) == Cardinality({i \in 1..k : tried[i].err = "none"})

\* C15: on n >= 1 leaf cells the ranked loop makes at most floor(n/2)
\* successful calls of split and makes no further call once that many
\* have succeeded.
C15_Quota ==
    [][(AdaptiveCalled /\ NLeaves >= 1) =>
          /\ Successes(last'.tried, Len(last'.tried)) <= NLeaves \div 2
          /\ \A k \in 0..Len(last'.tried) :
                Successes(last'.tried, k) >= NLeaves \div 2
                    => k = Len(last'.tried)]_vars

\* ------------------------------------------------------------------- C16
\* C16: every failure the ranked loop skips is that of a candidate which
\* already had children, split by the cascade of an earlier candidate; no
\* other failure, such as that of a tier that cannot be added, occurs in
\* the loop and is swallowed by it.
C16_OnlyAlreadySplit ==
    [][AdaptiveCalled =>
          \A i \in 1..Len(last'.tried) :
              last'.tried[i].err # "none" =>
                  /\ last'.tried[i].err = "already"
                  /\ \E j \in 1..(i - 1) : last'.tried[j].err = "none"]_vars

\* ------------------------------------------------------------------- C17
\* the largest of a set of values
Largest(S) == CHOOSE v \in S : \A w \in S : w <= v

\* the largest value of field f over the pixels of rectangle r: columns
\* bl.x up to but excluding tr.x, rows bl.y up to but excluding tr.y
PeakIn(f, r) ==
    Largest({obj_func(f, x, y) :
                x \in {x \in 0..(img_dim[2] - 1) :
                          r.x0 <= x * Scale /\ x * Scale < r.x1},
                y \in {y \in 0..(img_dim[1] - 1) :
                          r.y0 <= y * Scale /\ y * Scale < r.y1}})

\* the peak of field f over each leaf cell
Peaks(f) == [c \in {Leaves[i] : i \in 1..NLeaves} |-> PeakIn(f, Rect(c))]

\* the calls of tried were made on distinct leaves in descending order of
\* pk, and no leaf left out has a larger pk than a leaf tried
Descending(tried, pk) ==
    /\ TriedCells(tried) \subseteq DOMAIN pk
    /\ \A i \in 1..Len(tried) : \A j \in (i + 1)..Len(tried) :
          /\ tried[i].cell # tried[j].cell
          /\ pk[tried[i].cell] >= pk[tried[j].cell]
    /\ \A c \in TriedCells(tried) : \A d \in DOMAIN pk \ TriedCells(tried) :
          pk[c] >= pk[d]

\* the ranked loop of the call was entered
LoopEntered == AdaptiveCalled /\ last'.err # "peak"

\* C17: the leaf cells are attempted in descending order of the maximum
\* of the objective field over the cell's pixel rectangle, so every leaf
\* that is split directly, and every leaf attempted, has a peak not
\* smaller than that of any leaf never attempted.
C17_DescendingPeaks ==
    [][LoopEntered => Descending(last'.tried, Peaks(last'.obj))]_vars

\* a call with a field of distinct peaks split two leaves directly, skipped
\* one candidate in between and left leaves unattempted
C17_Witness ==
    /\ last.op = "adaptive" /\ last.obj = "spot"
    /\ Len(last.tried) = 3 /\ last.n = 2
    /\ last.tried[1].err = "none" /\ last.tried[2].err = "already"
    /\ Obj(last.tried[1].cell).tier = 1 /\ Obj(last.tried[2].cell).tier = 0
    /\ NLeaves > 5

\* ------------------------------------------------------------------- C18
\* the loop ended because the quota of successful splits was met by its
\* last call
QuotaMet(tried, n) ==
    /\ tried # <<>>
    /\ tried[Len(tried)].err = "none"
    /\ Successes(tried, Len(tried)) = n \div 2

\* C18: a split that fails inside the ranked loop is not propagated and
\* does not end the pass: the call returns normally, and the loop has
\* ended only because the quota of successful splits was met or because
\* every candidate had been attempted.
C18_FailureSkipped ==
    [][LoopEntered =>
          /\ last'.err = "none"
          /\ QuotaMet(last'.tried, NLeaves) \/ Len(last'.tried) = NLeaves
          /\ \A i \in 1..Len(last'.tried) :
                last'.tried[i].err # "none" =>
                    i < Len(last'.tried) \/ Len(last'.tried) = NLeaves]_vars

\* a call went on after a candidate that an earlier cascade had split and
\* split the next candidate
C18_Witness ==
    /\ last.op = "adaptive" /\ last.err = "none"
    /\ \E i \in 1..(Len(last.tried) - 1) :
          /\ last.tried[i].err = "already"
          /\ last.tried[i + 1].err = "none"
          /\ has_children(Obj(last.tried[i + 1].cell))

\* ------------------------------------------------------------------- C19
\* the cells of tier > 0 whose split got past the balancing step in this
\* step: they had no children before and have some now
PastBalancing ==
    {c \in CellIds : /\ Obj(c).tier > 0
                     /\ ~has_children(Obj(c))
                     /\ has_children(cellobjs'[c + 1])}

\* cell c lies on the border of the domain on side d
OnBorder(c, d) ==
    CASE d = "north" -> Rect(c).y1 = LastMultiple(img_dim[1]) * Scale
      [] d = "east" -> Rect(c).x1 = LastMultiple(img_dim[2]) * Scale
      [] d = "south" -> Rect(c).y0 = 0
      [] d = "west" -> Rect(c).x0 = 0

\* the windows appended in this step lie where no window was before, and
\* no two of them lie on the same point
FreshPoints ==
    \A w \in (Len(windows) + 1)..Len(windows') :
        \A v \in 1..Len(windows') :
            (v # w /\ windows'[v].x = windows'[w].x)
                => windows'[v].y # windows'[w].y

\* C19: when the split of a cell of tier > 0 is past its balancing step,
\* each of its same-tier neighbours exists unless the cell lies on the
\* border of the domain on that side, so no new point is allocated where
\* the cell across an edge has already created one.
C19_NeighboursBeforePoints ==
    [][/\ \A c \in PastBalancing : \A d \in Dirs :
             cellobjs'[c + 1][d] # None \/ OnBorder(c, d)
       /\ PastBalancing # {} => FreshPoints]_vars

\* ------------------------------------------------------------------- C20
\* sequence s is the beginning of sequence t
IsPrefix(s, t) ==
    /\ Len(s) <= Len(t)
    /\ \A i \in 1..Len(s) : t[i] = s[i]

\* the cell object c is the same cell after the step: same corner points,
\* tier, grid indices and parent
SameCell(c) ==
    /\ Corners(cellobjs'[c + 1]) = Corners(Obj(c))
    /\ cellobjs'[c + 1].id_bl = Obj(c).id_bl
    /\ cellobjs'[c + 1].id_tr = Obj(c).id_tr
    /\ cellobjs'[c + 1].tier = Obj(c).tier
    /\ cellobjs'[c + 1].ix = Obj(c).ix
    /\ cellobjs'[c + 1].iy = Obj(c).iy
    /\ cellobjs'[c + 1].parent = Obj(c).parent

\* C20: the point list and the cell list only grow by appending: across
\* every operation, successful or failed, every entry keeps its index, its
\* identity and its position, and nothing is removed or reordered.
C20_AppendOnly ==
    [][/\ IsPrefix(windows, windows')
       /\ IsPrefix(cells, cells')
       /\ Len(cellobjs) <= Len(cellobjs')
       /\ \A c \in CellIds : SameCell(c)]_vars

\* both lists have grown through single splits, a uniform pass or an
\* adaptive pass, a cascade and a failed split
C20_Witness ==
    /\ last.op \in {"split_all", "adaptive"}
    /\ Len(cells) >= cells_in_top_tier + 8
    /\ Len(cellobjs) > Len(cells)
    /\ Len(windows) > Len(cells)

\* ------------------------------------------------------------------- C21
\* C21: a cell that has children keeps them: in every later state
\* has_children() is still true and the four children are the same four
\* cells; no operation makes an internal cell a leaf again or replaces its
\* children.
C21_ChildrenKept ==
    [][\A c \in CellIds :
          has_children(Obj(c)) =>
              /\ has_children(cellobjs'[c + 1])
              /\ cellobjs'[c + 1].children = Obj(c).children
              /\ \A k \in KeySet : SameCell(Obj(c).children[k])]_vars

\* a split tier-0 cell, one of whose children has been split too, has been
\* through a rejected second split
C21_Witness ==
    /\ last.op = "split" /\ last.err = "already"
    /\ has_children(Obj(last.cell))
    /\ Obj(last.cell).tier = 0
    /\ \E k \in KeySet : has_children(Child(last.cell, k))

\* ------------------------------------------------- DensePredictor vocabulary
\* the constructed predictor, and whether the last call was get_region
Pred == dp[1]
RegionCalled == dp # <<>> /\ dp_last.op = "get_region"

\* row r, column c is a position of array A
InArray(A, r, c) == r \in 0..(A.shape[1] - 1) /\ c \in 0..(A.shape[2] - 1)

\* the centre of the last call lies inside the image
CentreInside ==
    /\ dp_last.x \in 0..(Pred.n_cols - 1)
    /\ dp_last.y \in 0..(Pred.n_rows - 1)

\* the rows and the columns of A inside the window of the last call
WinRows(A) ==
    {r \in (dp_last.y - dp_last.rad)..(dp_last.y + dp_last.rad) :
        r \in 0..(A.shape[1] - 1)}
WinCols(A) ==
    {c \in (dp_last.x - dp_last.rad)..(dp_last.x + dp_last.rad) :
        c \in 0..(A.shape[2] - 1)}

\* the least element of a set of integers
Least(S) == CHOOSE v \in S : \A w \in S : v <= w

\* out is the part of the window of the last call that lies inside A
Clipped(out, A) ==
    /\ out.shape = <<Cardinality(WinRows(A)), Cardinality(WinCols(A))>>
    /\ \A r \in WinRows(A) : \A c \in WinCols(A) :
          out.a[r - Least(WinRows(A))][c - Least(WinCols(A))] = A.a[r][c]

\* out is the whole window of the last call, zero where it leaves A
ZeroPadded(out, A) ==
    /\ out.shape = <<2 * dp_last.rad + 1, 2 * dp_last.rad + 1>>
    /\ \A r \in 0..(2 * dp_last.rad) : \A c \in 0..(2 * dp_last.rad) :
          out.a[r][c] =
              IF InArray(A, dp_last.y - dp_last.rad + r,
                            dp_last.x - dp_last.rad + c)
              THEN A.a[dp_last.y - dp_last.rad + r][dp_last.x - dp_last.rad + c]
              ELSE 0

\* out is the region of A the last call asked for
RegionOf(out, A) ==
    IF dp_last.truncate THEN Clipped(out, A) ELSE ZeroPadded(out, A)

C23_MaskReturned ==
    RegionCalled =>
        /\ dp_last.err = "none"
        /\ np_shape(dp_last.out.mask) = np_shape(dp_last.out.u)
        /\ np_shape(dp_last.out.v) = np_shape(dp_last.out.u)

\* ------------------------------------------------------------------- C24
\* the rows and columns of the window of the last call, inside A or not
AskedRows == (dp_last.y - dp_last.rad)..(dp_last.y + dp_last.rad)
AskedCols == (dp_last.x - dp_last.rad)..(dp_last.x + dp_last.rad)

\* every entry of out is the stored entry of A at some position of the
\* window of the last call, rows and columns in order
OnlyFromWindow(out, A) ==
    \E r0 \in AskedRows, c0 \in AskedCols :
        \A r \in 0..(out.shape[1] - 1) : \A c \in 0..(out.shape[2] - 1) :
            /\ r0 + r \in AskedRows /\ c0 + c \in AskedCols
            /\ InArray(A, r0 + r, c0 + c)
            /\ out.a[r][c] = A.a[r0 + r][c0 + c]

\* C24: for every integer centre, inside the image or not, and rad >= 0:
\* with truncate get_region returns only stored values of rows
\* y-rad..y+rad and columns x-rad..x+rad, and without it an array of shape
\* (2 rad + 1) x (2 rad + 1).
C24_AnyCentre ==
    (RegionCalled /\ dp_last.err = "none") =>
        IF dp_last.truncate
        THEN /\ OnlyFromWindow(dp_last.out.u, Pred.u)
             /\ OnlyFromWindow(dp_last.out.v, Pred.v)
        ELSE /\ np_shape(dp_last.out.u)
                    = <<2 * dp_last.rad + 1, 2 * dp_last.rad + 1>>
             /\ np_shape(dp_last.out.v)
                    = <<2 * dp_last.rad + 1, 2 * dp_last.rad + 1>>

\* ------------------------------------------------------------------- C25
\* the last call was the constructor
ConstructorCalled == dp_last.op = "init"

\* the shapes handed to the constructor disagree
ShapesDiffer ==
    \/ dp_last.u.shape # dp_last.v.shape
    \/ dp_last.mask.given /\ dp_last.mask.arr.shape # dp_last.u.shape

\* C25: the constructor raises ValueError whenever the shape of u differs
\* from that of v, with a mask or without, or a supplied mask's shape
\* differs from u's; otherwise it stores u, v and the mask unchanged and
\* sets n_rows, n_cols and img_dim to u's rows, columns and [rows, cols].
C25_ShapesChecked ==
    ConstructorCalled =>
        /\ ShapesDiffer => (dp_last.err = "ValueError" /\ dp = <<>>)
        /\ ~ShapesDiffer =>
              /\ dp_last.err = "none" /\ dp # <<>>
              /\ Pred.u = dp_last.u /\ Pred.v = dp_last.v
              /\ dp_last.mask.given => Pred.mask = dp_last.mask.arr
              /\ Pred.n_rows = dp_last.u.shape[1]
              /\ Pred.n_cols = dp_last.u.shape[2]
              /\ Pred.img_dim = <<dp_last.u.shape[1], dp_last.u.shape[2]>>

\* u and v agree but the supplied mask is of another shape: refused
C25_Witness ==
    /\ ConstructorCalled /\ dp_last.err = "ValueError"
    /\ dp_last.u.shape = <<2, 3>> /\ dp_last.v.shape = <<2, 3>>
    /\ dp_last.mask.given /\ dp_last.mask.arr.shape = <<3, 2>>

\* ------------------------------------------------------------------- C26
\* every entry of A is 1
AllOnes(A) ==
    \A r \in 0..(A.shape[1] - 1) : \A c \in 0..(A.shape[2] - 1) : A.a[r][c] = 1

Interpolated == last.op = "interp"

\* the tier-tn grid, and whether its entry [yy][xx] holds a window whose
\* displacement is known
TierGrid(tn) == grids[tn + 1]
Sampled(tn, yy, xx) ==
    /\ TierGrid(tn).array[yy][xx] # None
    /\ \/ last.known = "all"
       \/ last.known = "odd" /\ TierGrid(tn).array[yy][xx] % 2 = 1

\* e is the interpolant of kind last.method fitted on the sample positions
\* of tier tn and evaluated at every pixel of the image
FittedOn(e, tn) ==
    /\ e.f.kind = last.method
    /\ e.f.x_vec = [i \in 1..TierGrid(tn).nx |-> (i - 1) * TierGrid(tn).spacing]
    /\ e.f.y_vec = [i \in 1..TierGrid(tn).ny |-> (i - 1) * TierGrid(tn).spacing]
    /\ e.xe = [i \in 1..img_dim[2] |-> i - 1]
    /\ e.ye = [i \in 1..img_dim[1] |-> i - 1]

\* the baseline is fitted to the tier-0 values of field f
Baseline(s, f) ==
    /\ FittedOn(s.base, 0)
    /\ \A yy \in 0..(TierGrid(0).ny - 1), xx \in 0..(TierGrid(0).nx - 1) :
           IF Sampled(0, yy, xx)
           THEN s.base.f.z[yy][xx] = [nan |-> FALSE, f |-> f,
                                        w |-> TierGrid(0).array[yy][xx]]
           ELSE s.base.f.z[yy][xx].nan

\* the tn-th term added is fitted to the delta of tier tn: zero where the
\* tier has no known sample, else the sample minus the solution after tier
\* tn - 1 at the pixel of the sample
DeltaLayer(l, tn, f) ==
    /\ l.tier = tn
    /\ FittedOn(l.eval, tn)
    /\ \A yy \in 0..(TierGrid(tn).ny - 1), xx \in 0..(TierGrid(tn).nx - 1) :
           IF Sampled(tn, yy, xx)
           THEN l.eval.f.z[yy][xx] =
                    [zero |-> FALSE,
                     value |-> [nan |-> FALSE, f |-> f,
                                w |-> TierGrid(tn).array[yy][xx]],
                     minus |-> [after |-> tn - 1,
                                row |-> yy * TierGrid(tn).spacing,
                                col |-> xx * TierGrid(tn).spacing]]
           ELSE l.eval.f.z[yy][xx] = [zero |-> TRUE]

Reconstructed(s, f) ==
    /\ Baseline(s, f)
    /\ Len(s.added) = max_tier
    /\ \A tn \in 1..max_tier : DeltaLayer(s.added[tn], tn, f)

SplitNeighbour(c, d) ==
    /\ Obj(c)[d] # None
    /\ has_children(Obj(Obj(c)[d]))

\* the number of sides of c across which the neighbour has children
SplitSides(c) == Cardinality({ d \in Dirs : SplitNeighbour(c, d) })

\* the child of the neighbour across side d that touches the middle of the
\* shared edge, and the corner of that child lying there
FacingChild == [west |-> "br", south |-> "tl", north |-> "br", east |-> "bl"]
FacingCorner == [west |-> "id_tr", south |-> "id_tr", north |-> "id_bl",
                 east |-> "id_tl"]
NeighbourCorner(c, d) ==
    Obj(Obj(Obj(c)[d]).children[FacingChild[d]])[FacingCorner[d]]

\* after the step: the child k of cell c, the midpoint of side d of c as a
\* corner of its children, and its centre
ChildAfter(c, k) == cellobjs'[cellobjs'[c + 1].children[k] + 1]
MidAfter(c, d) ==
    CASE d = "west" -> ChildAfter(c, "bl").id_tl
      [] d = "south" -> ChildAfter(c, "bl").id_br
      [] d = "north" -> ChildAfter(c, "tr").id_tl
      [] d = "east" -> ChildAfter(c, "tr").id_br
CentreAfter(c) == ChildAfter(c, "bl").id_tr

\* the step is a successful split of cell c, without children before, that
\* split no other cell
SplitAlone(c) ==
    /\ last'.op = "split" /\ last'.err = "none" /\ last'.n = 1
    /\ last'.cell = c
    /\ ~has_children(Obj(c))

\* w is a window the step appended
Fresh(w) == w >= Len(windows) /\ w < Len(windows')

\* C28: a successful split that splits no neighbour appends 5 - k windows,
\* k being the number of sides across which the neighbour already has
\* children: the centre is new, a midpoint facing a split neighbour is the
\* corner of that neighbour's child on the shared edge, every other
\* midpoint is new; the cell gets 4 children; the only cell of a one-cell
\* mesh leaves 4 leaf cells and 9 windows.
C28_FiveMinusShared ==
    [][\A c \in CellIds :
          SplitAlone(c) =>
              /\ Len(windows') = Len(windows) + 5 - SplitSides(c)
              /\ \A w \in 1..Len(windows) : windows'[w] = windows[w]
              /\ Fresh(CentreAfter(c))
              /\ \A d \in Dirs :
                     IF SplitNeighbour(c, d)
                     THEN MidAfter(c, d) = NeighbourCorner(c, d)
                     ELSE Fresh(MidAfter(c, d))
              /\ Len(cellobjs') = Len(cellobjs) + 4
              /\ \A k \in KeySet : cellobjs'[c + 1].children[k] >= Len(cellobjs)
              /\ Cardinality({ cellobjs'[c + 1].children[k] : k \in KeySet }) = 4
              /\ SplitSides(c) = 0 => Len(windows') = Len(windows) + 5
              /\ (Len(cells) = 1 /\ Len(cellobjs) = 1) =>
                     (Len(windows') = 9 /\ NLeaves' = 4)]_vars

\* a cell was split alone next to a neighbour that had been split before
\* it, and takes its midpoint on that side from the neighbour
C28_Witness ==
    /\ SplitOk(last) /\ last.n = 1
    /\ \E d \in Dirs :
           /\ SplitNeighbour(last.cell, d)
           /\ Obj(last.cell)[d] # None
           /\ Obj(Obj(last.cell)[d]).children["bl"] < Obj(last.cell).children["bl"]
           /\ NeighbourCorner(last.cell, d) < Len(windows) - 4
           /\ Len(windows) - 4 <= Child(last.cell, "bl").id_tr

\* ------------------------------------------------------------------- C29
\* C29: every cell that hangs below a tier-0 cell has a tier of at most
\* max_tier, and the mesh has a grid for that tier.
C29_TierWithinMax ==
    \A c \in CellIds :
        Reachable(c) =>
            /\ Obj(c).tier <= max_tier
            /\ Obj(c).tier + 1 <= Len(grids)

\* ------------------------------------------------------------------- C30
\* the entry [row][col] of the tier-t grid, None when it lies outside
Entry(t, row, col) ==
    IF row \in 0..(TierGrid(t).ny - 1) /\ col \in 0..(TierGrid(t).nx - 1)
    THEN TierGrid(t).array[row][col]
    ELSE None

\* every window a tier grid refers to lies at (col * h, row * h), h being
\* the base spacing halved once per tier
EntriesInPlace ==
    \A t \in 0..(Len(grids) - 1) :
        /\ TierGrid(t).spacing * (2 ^ t) = spacing
        /\ \A row \in 0..(TierGrid(t).ny - 1), col \in 0..(TierGrid(t).nx - 1) :
               TierGrid(t).array[row][col] # None =>
                   Pos(TierGrid(t).array[row][col])
                       = <<col * TierGrid(t).spacing * Scale,
                           row * TierGrid(t).spacing * Scale>>

\* the five points of the split cell c are in the grid of its children's
\* tier, around [2iy + 1][2ix + 1]
FiveRegistered(c) ==
    /\ Obj(c).tier + 2 <= Len(grids)
    /\ 2 * Obj(c).iy + 2 <= TierGrid(Obj(c).tier + 1).ny - 1
    /\ 2 * Obj(c).ix + 2 <= TierGrid(Obj(c).tier + 1).nx - 1
    /\ Entry(Obj(c).tier + 1, 2 * Obj(c).iy + 1, 2 * Obj(c).ix)
           = Child(c, "bl").id_tl
    /\ Entry(Obj(c).tier + 1, 2 * Obj(c).iy, 2 * Obj(c).ix + 1)
           = Child(c, "bl").id_br
    /\ Entry(Obj(c).tier + 1, 2 * Obj(c).iy + 1, 2 * Obj(c).ix + 1)
           = Child(c, "bl").id_tr
    /\ Entry(Obj(c).tier + 1, 2 * Obj(c).iy + 2, 2 * Obj(c).ix + 1)
           = Child(c, "tr").id_tl
    /\ Entry(Obj(c).tier + 1, 2 * Obj(c).iy + 1, 2 * Obj(c).ix + 2)
           = Child(c, "tr").id_br

\* the five points of cell c lie on the middles of its edges and at its
\* centre
FiveAtMidpoints(c) ==
    /\ Twice(Child(c, "bl").id_tl) = TwiceMid(Obj(c).id_bl, Obj(c).id_tl)
    /\ Twice(Child(c, "bl").id_br) = TwiceMid(Obj(c).id_bl, Obj(c).id_br)
    /\ Twice(Child(c, "bl").id_tr) = TwiceMid(Obj(c).id_bl, Obj(c).id_tr)
    /\ Twice(Child(c, "tr").id_tl) = TwiceMid(Obj(c).id_tl, Obj(c).id_tr)
    /\ Twice(Child(c, "tr").id_br) = TwiceMid(Obj(c).id_br, Obj(c).id_tr)

\* C30: each non-empty entry [row][col] of the tier-t grid is a window at
\* (col * h, row * h) with h the base spacing over 2^t; and when a split of
\* the cell (ix, iy) of tier t has succeeded, the grid of tier t + 1 holds
\* the cell's west-mid, south-mid, centre, north-mid and east-mid windows at
\* [2iy+1][2ix], [2iy][2ix+1], [2iy+1][2ix+1], [2iy+2][2ix+1] and
\* [2iy+1][2ix+2], all of them inside the grid.
C30_GridPlacement ==
    /\ EntriesInPlace
    /\ SplitOk(last) =>
           /\ FiveRegistered(last.cell)
           /\ FiveAtMidpoints(last.cell)

\* a cell of tier 1 that is not the first of its row or column has just
\* been split and its five windows are in the tier-2 grid
C30_Witness ==
    /\ SplitOk(last)
    /\ Obj(last.cell).tier = 1
    /\ Obj(last.cell).ix >= 1
    /\ Obj(last.cell).iy # Obj(last.cell).ix
    /\ Entry(2, 2 * Obj(last.cell).iy + 1, 2 * Obj(last.cell).ix + 1) # None

\* ------------------------------------------------------------------- C31
\* the cells of the cell list
Listed == { cells[i] : i \in 1..Len(cells) }

\* the step in ix and in iy towards each side
StepX == [north |-> 0, east |-> 1, south |-> 0, west |-> -1]
StepY == [north |-> 1, east |-> 0, south |-> -1, west |-> 0]

\* cell b has the tier of cell a and lies one index step from it towards d
NextTo(a, b, d) ==
    /\ Obj(b).tier = Obj(a).tier
    /\ Obj(b).ix = Obj(a).ix + StepX[d]
    /\ Obj(b).iy = Obj(a).iy + StepY[d]

\* the tier-0 cell a lies on the border of the domain on side d: the
\* tier-0 cells form NY - 1 rows of NX - 1
OnDomainBorder(a, d) ==
    CASE d = "north" -> Obj(a).iy = NY - 2
      [] d = "east" -> Obj(a).ix = NX - 2
      [] d = "south" -> Obj(a).iy = 0
      [] d = "west" -> Obj(a).ix = 0

\* C31: for every cell of the cell list a neighbour that is not None is
\* the cell of the same tier one index step away on that side; a tier-0
\* cell has no neighbour exactly on the sides where it lies on the border
\* of the domain; and two cells of the cell list that have the same tier
\* and lie one index step apart are linked.
C31_NeighboursByIndex ==
    \A a \in Listed, d \in Dirs :
        /\ Obj(a)[d] # None => NextTo(a, Obj(a)[d], d)
        /\ Obj(a).tier = 0 => (Obj(a)[d] = None <=> OnDomainBorder(a, d))
        /\ \A b \in Listed : NextTo(a, b, d) => Obj(a)[d] = b

\* children of two different tier-0 cells are linked across the edge the
\* two share, and a cell of tier 2 has a neighbour of another parent
C31_Witness ==
    /\ \E a \in Listed, b \in Listed :
           /\ Obj(a).tier = 1 /\ Obj(a).east = b
           /\ Obj(a).parent # Obj(b).parent
    /\ \E a \in Listed, b \in Listed :
           /\ Obj(a).tier = 2 /\ Obj(a).north = b
           /\ Obj(a).parent # Obj(b).parent

\* ------------------------------------------------------------------- C32
\* every split so far that changed the mesh went through: the children of
\* each cell are in the cell list (a split that fails in new_tier leaves
\* four children outside it)
OnlySuccessfulSplits ==
    \A c \in CellIds :
        has_children(Obj(c)) => \A k \in KeySet : Obj(c).children[k] \in Listed

\* the unit squares of the rectangle spanned by the tier-0 grid points,
\* each named by its bottom-left pixel
UnitSquares ==
    (0..(LastMultiple(img_dim[2]) - 1)) \X (0..(LastMultiple(img_dim[1]) - 1))

\* the unit square sq lies in rectangle r
SquareIn(sq, r) ==
    /\ r.x0 <= sq[1] * Scale /\ (sq[1] + 1) * Scale <= r.x1
    /\ r.y0 <= sq[2] * Scale /\ (sq[2] + 1) * Scale <= r.y1

\* rects partition the rectangle from (0, 0) to (X, Y)
Partition(rects, X, Y) ==
    /\ \A sq \in UnitSquares :
           Cardinality({ i \in DOMAIN rects : SquareIn(sq, rects[i]) }) = 1
    /\ \A i \in DOMAIN rects :
           /\ 0 <= rects[i].x0 /\ rects[i].x1 <= X * Scale
           /\ 0 <= rects[i].y0 /\ rects[i].y1 <= Y * Scale

\* C32: after successful splits only, every unit square of the rectangle
\* from (0, 0) to (x_max, y_max), the largest multiples of the spacing
\* below the image width and height, lies in exactly one leaf rectangle,
\* and no leaf rectangle reaches beyond (x_max, y_max).
C32_LeavesPartition ==
    OnlySuccessfulSplits =>
        Partition(LeafRects, LastMultiple(img_dim[2]), LastMultiple(img_dim[1]))

\* a mesh of several tier-0 cells refined to tier 2 by successful splits,
\* with leaves of tier 0 and of tier 2
C32_Witness ==
    /\ OnlySuccessfulSplits
    /\ SplitOk(last)
    /\ cells_in_top_tier >= 2
    /\ \E i \in 1..NLeaves : Obj(Leaves[i]).tier = 2
    /\ \E i \in 1..NLeaves : Obj(Leaves[i]).tier = 0

\* ------------------------------------------------------------------- C33
\* rectangles r and q share a piece of positive length of a vertical edge,
\* or of a horizontal edge
SharesVertical(r, q) ==
    /\ r.x1 = q.x0 \/ q.x1 = r.x0
    /\ r.y0 < q.y1 /\ q.y0 < r.y1
SharesHorizontal(r, q) ==
    /\ r.y1 = q.y0 \/ q.y1 = r.y0
    /\ r.x0 < q.x1 /\ q.x0 < r.x1
SharesEdge(r, q) == SharesVertical(r, q) \/ SharesHorizontal(r, q)

\* the leaves lv with rectangles rects are balanced two to one: a leaf
\* more than one tier deeper than another shares no edge piece with it
Balanced(lv, rects) ==
    \A i \in DOMAIN lv, j \in DOMAIN lv :
        Obj(lv[i]).tier - Obj(lv[j]).tier > 1 =>
            ~SharesEdge(rects[i], rects[j])

\* C33: after successful splits only, two leaf cells whose rectangles
\* share a piece of positive length of an edge differ in tier by at most
\* one.
C33_TwoToOne == OnlySuccessfulSplits => Balanced(Leaves, LeafRects)

\* the split of a tier-1 cell made its balancing step split the tier-0
\* cell next to it: a leaf of tier 2 now touches a leaf of tier 1 that
\* hangs below another tier-0 cell
C33_Witness ==
    /\ OnlySuccessfulSplits
    /\ SplitOk(last) /\ last.n >= 2
    /\ \E i \in 1..NLeaves, j \in 1..NLeaves :
           /\ Obj(Leaves[i]).tier = 2 /\ Obj(Leaves[j]).tier = 1
           /\ SharesEdge(Rect(Leaves[i]), Rect(Leaves[j]))
           /\ Obj(Obj(Leaves[i]).parent).parent # Obj(Leaves[j]).parent

\* ------------------------------------------------------------------- C34
\* the step is a call of split on cell c that went past the test for
\* children of its own
SplitRequested(c) ==
    /\ last'.op = "split" /\ last'.cell = c
    /\ last' # last \/ mesh' # mesh
    /\ ~has_children(Obj(c))

\* cell b was split by the step: it had no children and has them now
SplitByStep(b) == ~has_children(Obj(b)) /\ has_children(cellobjs'[b + 1])

\* C34: every call of split returns; the cells other than the requested
\* one that the call splits have a tier below that of the requested cell,
\* so that the cascade is no deeper than that tier; and the balancing
\* step only calls split on cells without children, so that the call never
\* ends with the error of a second split raised by a cascaded call.
C34_CascadeOnLeaves ==
    [][\A c \in CellIds :
          SplitRequested(c) =>
              /\ last'.err # "already"
              /\ \A b \in CellIds :
                     (SplitByStep(b) /\ b # c) => Obj(b).tier < Obj(c).tier]_vars

====
